---- MODULE Spec2Model ----
(***************************************************************************)
(* A model of the HTML-to-presentation converters of test/ppt_test:        *)
(*   html2pptx.py      (CSSProcessor, LayoutAnalyzer, TextProcessor,       *)
(*                      PPTGenerator)                                      *)
(*   convert_to_pdf.py (html_to_pptx, css_value_to_pt, fill_slide, ...)    *)
(*   layout_analyzer.py (AdvancedLayoutAnalyzer, SmartPositionCalculator)  *)
(*                                                                         *)
(* Strings that the code inspects character by character (CSS lengths)     *)
(* are sequences of one-character strings.  Python floats are modelled as  *)
(* fixed-point integers: a float x is the integer x * FloatScale; the      *)
(* rounding of binary floating point is not modelled.                      *)
(***************************************************************************)
EXTENDS Integers, Sequences, FiniteSets, TLC

VARIABLES
    pc,          \* position of the running specification's control
    len_in,      \* SpecLength: the pair of values handed to the converters
    css_out,     \* SpecLength: css_value_to_pt's results for len_in
    len_out,     \* SpecLength: PPTGenerator._parse_length's results for len_in
    spacing_out, \* SpecLength: PPTGenerator._parse_css_spacing's results for len_in
    ov_config,   \* SpecOverlap: the TemplateConfig fields _resolve_overlaps reads
    positions,   \* SpecOverlap: the ElementPosition list handed to the resolver
    resolved,    \* SpecOverlap: the results of the successive resolver runs
    css_rules,   \* SpecStyle: the style rules of the stylesheet, in source order
    all_styles,  \* SpecStyle: the selector -> properties dict built from them
    element,     \* SpecStyle: the node whose style is resolved
    computed,    \* SpecStyle: the resolved style, and the resolver that made it
    lay_container, \* SpecLayout: the slide container whose layout is computed
    lay_info,    \* SpecLayout: the analyzer's result for the container
    text_boxes,  \* SpecLayout: the bounds of the text boxes PPTGenerator creates
    document,    \* Spec: the converter called, its config and the HTML document
    doc_styles,  \* Spec: all_styles of PPTGenerator.convert, the rule map
    cursor,      \* Spec: the 1-based index the running loop has reached
    slides,      \* Spec: the list html_to_slides builds (convert_to_pdf.py)
    prs,         \* Spec: the pages of the Presentation, in page order
    files,       \* Spec: the files the call has written
    returned,    \* Spec: the value the call has returned, in a tuple; <<>> before
    color_style, \* SpecColor: the style dict of the element that is coloured
    color_out,   \* SpecColor: the outcome of each call made with color_style
    dom,         \* SpecExtract: the slide container, a tree of Tags and strings
    extracted,   \* SpecExtract: the text elements extracted from dom, in a tuple
    height_in,   \* SpecHeight: the pair of text elements whose heights are computed
    height_out   \* SpecHeight: each height function's results for height_in

lenVars == <<len_in, css_out, len_out, spacing_out>>
ovVars == <<ov_config, positions, resolved>>
styleVars == <<css_rules, all_styles, element, computed>>
layVars == <<lay_container, lay_info, text_boxes>>
pipeVars == <<document, doc_styles, cursor, slides, prs, files, returned>>
colorVars == <<color_style, color_out>>
extractVars == <<dom, extracted>>
heightVars == <<height_in, height_out>>
vars == <<pc, lenVars, ovVars, styleVars, layVars, pipeVars, colorVars, extractVars, heightVars>>

\* The values the variables of the specifications that are not running keep
IdleLength == len_in = <<>> /\ css_out = <<>> /\ len_out = <<>> /\ spacing_out = <<>>
IdleOverlap == ov_config = [overlap_detection |-> FALSE, overlap_resolution |-> "none"]
               /\ positions = <<>> /\ resolved = <<>>
IdleStyle == css_rules = <<>> /\ all_styles = <<>> /\ element = <<>> /\ computed = <<>>
IdleLayout == lay_container = <<>> /\ lay_info = <<>> /\ text_boxes = <<>>
IdlePipeline == document = <<>> /\ doc_styles = <<>> /\ cursor = 0 /\ slides = <<>> /\ prs = <<>> /\ files = {}
                /\ returned = <<>>
IdleColor == color_style = <<>> /\ color_out = <<>>
IdleExtract == dom = <<>> /\ extracted = <<>>
IdleHeight == height_in = <<>> /\ height_out = <<>>
Idle(running) ==
    /\ running # "length" => IdleLength
    /\ running \notin {"overlap", "layout"} => IdleOverlap
    /\ running # "style" => IdleStyle
    /\ running # "layout" => IdleLayout
    /\ running # "pipeline" => IdlePipeline
    /\ running # "color" => IdleColor
    /\ running # "extract" => IdleExtract
    /\ running # "height" => IdleHeight

\* The variables the actions of each specification leave alone
notLength == <<ovVars, styleVars, layVars, pipeVars, colorVars, extractVars, heightVars>>
notOverlap == <<lenVars, styleVars, layVars, pipeVars, colorVars, extractVars, heightVars>>
notStyle == <<lenVars, ovVars, layVars, pipeVars, colorVars, extractVars, heightVars>>
notLayout == <<lenVars, styleVars, resolved, pipeVars, colorVars, extractVars, heightVars>>
notPipeline == <<lenVars, ovVars, styleVars, layVars, colorVars, extractVars, heightVars>>
notColor == <<lenVars, ovVars, styleVars, layVars, pipeVars, extractVars, heightVars>>
notExtract == <<lenVars, ovVars, styleVars, layVars, pipeVars, colorVars, heightVars>>
notHeight == <<lenVars, ovVars, styleVars, layVars, pipeVars, colorVars, extractVars>>

(***************************************************************************)
(* Fixed point                                                             *)
(***************************************************************************)
\* One float unit.  9600 keeps every product below exact for values with at
\* most two decimal digits: /100 (percent), *3/4 (px->pt), *4/3 (pt->px),
\* /96 (px->inches).
FloatScale == 96 * 100

Max(a, b) == IF a >= b THEN a ELSE b
Min(a, b) == IF a <= b THEN a ELSE b

(***************************************************************************)
(* Python string helpers on sequences of characters                        *)
(***************************************************************************)
\* str.lower() on the characters the length inputs use
LowerChar(c) ==
    CASE c = "P" -> "p"
      [] c = "X" -> "x"
      [] c = "T" -> "t"
      [] c = "R" -> "r"
      [] c = "E" -> "e"
      [] c = "M" -> "m"
      [] OTHER -> c

Lower(s) == [k \in 1..Len(s) |-> LowerChar(s[k])]

IsSpace(c) == c = " "

RECURSIVE LStrip(_)
LStrip(s) == IF s # <<>> /\ IsSpace(Head(s)) THEN LStrip(Tail(s)) ELSE s

RECURSIVE RStrip(_)
RStrip(s) ==
    IF s # <<>> /\ IsSpace(s[Len(s)]) THEN RStrip(SubSeq(s, 1, Len(s) - 1)) ELSE s

\* str.strip()
Strip(s) == LStrip(RStrip(s))

\* str.endswith(suffix)
EndsWith(s, suffix) ==
    /\ Len(s) >= Len(suffix)
    /\ SubSeq(s, Len(s) - Len(suffix) + 1, Len(s)) = suffix

\* s[:-n]
DropLast(s, n) == SubSeq(s, 1, Len(s) - n)

IsDigit(c) == c \in {"0", "1", "2", "3", "4", "5", "6", "7", "8", "9"}

DigitVal(c) ==
    CASE c = "0" -> 0 [] c = "1" -> 1 [] c = "2" -> 2 [] c = "3" -> 3
      [] c = "4" -> 4 [] c = "5" -> 5 [] c = "6" -> 6 [] c = "7" -> 7
      [] c = "8" -> 8 [] c = "9" -> 9

RECURSIVE DigitsVal(_)
DigitsVal(s) ==
    IF s = <<>> THEN 0 ELSE DigitsVal(DropLast(s, 1)) * 10 + DigitVal(s[Len(s)])

AllDigits(s) == \A k \in 1..Len(s) : IsDigit(s[k])

\* 10^n
RECURSIVE Pow10(_)
Pow10(n) == IF n = 0 THEN 1 ELSE 10 * Pow10(n - 1)

\* Position of the first "." of s, 0 when there is none
DotPos(s) ==
    IF \E k \in 1..Len(s) : s[k] = "."
    THEN CHOOSE k \in 1..Len(s) : s[k] = "." /\ \A m \in 1..(k - 1) : s[m] # "."
    ELSE 0

\* float(s) for an unsigned decimal literal: digits, or digits "." digits with
\* at least one digit overall.  [ok |-> FALSE] stands for ValueError.
UnsignedFloat(s) ==
    LET d == DotPos(s)
        ip == IF d = 0 THEN s ELSE SubSeq(s, 1, d - 1)
        fp == IF d = 0 THEN <<>> ELSE SubSeq(s, d + 1, Len(s))
    IN  IF AllDigits(ip) /\ AllDigits(fp) /\ Len(ip) + Len(fp) > 0
           /\ FloatScale % Pow10(Len(fp)) = 0
        THEN [ok |-> TRUE,
              val |-> DigitsVal(ip) * FloatScale
                      + DigitsVal(fp) * (FloatScale \div Pow10(Len(fp)))]
        ELSE [ok |-> FALSE, val |-> 0]

\* float(s): surrounding whitespace and one leading sign are accepted.  The
\* inputs of this model hold no exponent, "inf", "nan" or "_" literals.
ParseFloat(s) ==
    LET t == Strip(s)
    IN  IF t # <<>> /\ Head(t) = "-"
        THEN LET u == UnsignedFloat(Tail(t))
             IN  [ok |-> u.ok, val |-> 0 - u.val]
        ELSE IF t # <<>> /\ Head(t) = "+"
        THEN UnsignedFloat(Tail(t))
        ELSE UnsignedFloat(t)

\* str(n) for a natural number: its decimal digits
DigitChar(d) ==
    CASE d = 0 -> "0" [] d = 1 -> "1" [] d = 2 -> "2" [] d = 3 -> "3"
      [] d = 4 -> "4" [] d = 5 -> "5" [] d = 6 -> "6" [] d = 7 -> "7"
      [] d = 8 -> "8" [] d = 9 -> "9"

RECURSIVE Fmt(_)
Fmt(n) == IF n < 10 THEN <<DigitChar(n)>> ELSE Fmt(n \div 10) \o <<DigitChar(n % 10)>>

(***************************************************************************)
(* Length normalisation                                                    *)
(***************************************************************************)
REM_PX == 16
PX_PT_NUM == 3
PX_PT_DEN == 4
PPT_WIDTH_PX == 1280
PPT_HEIGHT_PX == 720
BASE_SIZE == 16

\* x * PX_PT, with PX_PT = 0.75
TimesPxPt(x) == (x * PX_PT_NUM) \div PX_PT_DEN

\* A value handed to a converter: a str (its characters), an int or float
\* (num, in units), or any other object (None, a list, ...).
StrValue(chars) == [kind |-> "str", chars |-> chars, num |-> 0]
NumValue(n) == [kind |-> "num", chars |-> <<>>, num |-> n]
OtherValue == [kind |-> "other", chars |-> <<>>, num |-> 0]

\* Mutant: the "em" suffix tested before "rem", so "1rem" is read as "1r" em
CssValueToPtTry_EmFirst(val, base_font_px, ppt_width_px, ppt_height_px) ==
    LET num(n) == ParseFloat(DropLast(val, n))
        conv(f, x) == [ok |-> f.ok, val |-> x]
    IN  IF EndsWith(val, <<"p", "t">>) THEN num(2)
        ELSE IF EndsWith(val, <<"p", "x">>)
             THEN conv(num(2), TimesPxPt(num(2).val))
        ELSE IF EndsWith(val, <<"e", "m">>)
             THEN conv(num(2), TimesPxPt(num(2).val * base_font_px))
        ELSE ParseFloat(val)

\* The try block of css_value_to_pt: the unit suffixes in the order tested.
\* ok = FALSE stands for the ValueError of float().
CssValueToPtTry(val, base_font_px, ppt_width_px, ppt_height_px) ==
    LET num(n) == ParseFloat(DropLast(val, n))
        conv(f, x) == [ok |-> f.ok, val |-> x]
    IN  IF EndsWith(val, <<"p", "t">>) THEN num(2)
        ELSE IF EndsWith(val, <<"p", "x">>)
             THEN conv(num(2), TimesPxPt(num(2).val))
        ELSE IF EndsWith(val, <<"r", "e", "m">>)
             THEN conv(num(3), TimesPxPt(num(3).val * REM_PX))
        ELSE IF EndsWith(val, <<"e", "m">>)
             THEN conv(num(2), TimesPxPt(num(2).val * base_font_px))
        ELSE IF EndsWith(val, <<"v", "w">>)
             THEN conv(num(2), TimesPxPt((num(2).val * ppt_width_px) \div 100))
        ELSE IF EndsWith(val, <<"v", "h">>)
             THEN conv(num(2), TimesPxPt((num(2).val * ppt_height_px) \div 100))
        ELSE IF EndsWith(val, <<"%">>)
             THEN conv(num(1), TimesPxPt((num(1).val \div 100) * base_font_px))
        ELSE ParseFloat(val)

\* css_value_to_pt(val): the length in pt (fixed point)
CssValueToPt(v) ==
    IF v.kind = "num" THEN v.num * FloatScale
    ELSE IF v.kind # "str" THEN 0
    ELSE LET r == CssValueToPtTry(Lower(Strip(v.chars)), REM_PX,
                                  PPT_WIDTH_PX, PPT_HEIGHT_PX)
         IN  IF r.ok THEN r.val ELSE 0

\* The try block of PPTGenerator._parse_length
ParseLengthTry(value, base_size) ==
    LET unit == IF EndsWith(value, <<"p", "x">>) THEN "px"
                ELSE IF EndsWith(value, <<"p", "t">>) THEN "pt"
                ELSE IF EndsWith(value, <<"r", "e", "m">>) THEN "rem"
                ELSE IF EndsWith(value, <<"e", "m">>) THEN "em"
                ELSE IF EndsWith(value, <<"%">>) THEN "%"
                ELSE ""
        suffix == IF unit = "rem" THEN 3 ELSE IF unit = "%" THEN 1
                  ELSE IF unit = "" THEN 0 ELSE 2
        \* float(value[:-len(unit)]), or float(value) without a unit
        f == ParseFloat(DropLast(value, suffix))
    IN  [ok |-> f.ok,
         val |-> IF unit = "pt" THEN (f.val * 4) \div 3
                 ELSE IF unit \in {"rem", "em"} THEN f.val * base_size
                 ELSE IF unit = "%" THEN (f.val \div 100) * base_size
                 ELSE f.val]

\* PPTGenerator._parse_length(value): the length in px (fixed point)
ParseLength(v) ==
    IF v.kind = "num" THEN v.num * FloatScale
    ELSE IF v.kind # "str" THEN 0
    ELSE LET r == ParseLengthTry(Lower(Strip(v.chars)), BASE_SIZE)
         IN  IF r.ok THEN r.val ELSE 0

PX_PER_INCH == 96

\* PPTGenerator.px_to_inches for a px amount in fixed point: px * (1 / 96)
PxToInches(px) == px \div PX_PER_INCH

\* str.split(): the maximal runs of non-space characters
RECURSIVE SplitWs(_)
SplitWs(s) ==
    LET t == LStrip(s)
        ends == { k \in 1..Len(t) : IsSpace(t[k]) }
        n == IF ends = {} THEN Len(t) ELSE (CHOOSE k \in ends : \A j \in ends : k <= j) - 1
    IN  IF t = <<>> THEN <<>>
        ELSE <<SubSeq(t, 1, n)>> \o SplitWs(SubSeq(t, n + 1, Len(t)))

(***************************************************************************)
(* SpecLength: two values are normalised by each converter                 *)
(***************************************************************************)
\* Largest n of the "n rem" / "16n px" inputs
MaxLenNum == 2

LengthUnits ==
    { <<"p", "x">>, <<"p", "t">>, <<"r", "e", "m">>, <<"e", "m">>,
      <<"v", "w">>, <<"v", "h">>, <<"%">>, <<>> }

LengthNums == (0..MaxLenNum) \cup {REM_PX * n : n \in 0..MaxLenNum}

LengthInputs ==
    { StrValue(Fmt(n) \o u) : n \in LengthNums, u \in LengthUnits }
    \cup { StrValue(<<" ", "1", "6", "P", "X", " ">>),
           StrValue(<<"1", ".", "5", "r", "e", "m">>),
           StrValue(<<"-", "8", "p", "x">>),
           StrValue(<<"1", "2", "p", "t">>),
           StrValue(<<"1", "0", "0", "%">>),
           StrValue(<<"5", "0", "v", "w">>),
           StrValue(<<"6", "4", "0", "p", "x">>),
           StrValue(<<"5", "0", "v", "h">>),
           StrValue(<<"3", "6", "0", "p", "x">>),
           StrValue(<<"a", "u", "t", "o">>),
           StrValue(<<"p", "x">>),
           StrValue(<<>>),
           NumValue(16), OtherValue }

Pending == [done |-> FALSE, val |-> 0]
Done(x) == [done |-> TRUE, val |-> x]

\* The call has raised (AttributeError, ValueError, ...).
Raised == [done |-> TRUE, val |-> 0, raised |-> TRUE]

\* PPTGenerator._parse_css_spacing(value) for a value of any type: the
\* outcomes of the call.  A str is false when empty, a number when zero;
\* value.split() exists for a str only.
ParseCssSpacingOf(v) ==
    LET first_value(parts) ==
            IF parts = <<>> THEN Done(0)
            ELSE Done(PxToInches(ParseLength(StrValue(parts[1]))))
    IN  IF v.kind = "str"
        THEN IF v.chars = <<>> \/ v.chars = <<"0">> THEN {Done(0)}
             ELSE {first_value(SplitWs(v.chars))}
        ELSE IF v.kind = "num"
        THEN IF v.num = 0 THEN {Done(0)} ELSE {Raised}
        ELSE {Done(0), Raised}

InitLength ==
    /\ pc = "length"
    /\ len_in \in [1..2 -> LengthInputs]
    /\ css_out = [k \in 1..2 |-> Pending]
    /\ len_out = [k \in 1..2 |-> Pending]
    /\ spacing_out = [k \in 1..2 |-> Pending]
    /\ Idle("length")

\* css_value_to_pt(len_in[k])
CssValueToPtCall(k) ==
    /\ pc = "length"
    /\ ~css_out[k].done
    /\ css_out' = [css_out EXCEPT ![k] = Done(CssValueToPt(len_in[k]))]
    /\ UNCHANGED <<pc, len_in, len_out, spacing_out, notLength>>

\* PPTGenerator._parse_length(len_in[k])
ParseLengthCall(k) ==
    /\ pc = "length"
    /\ ~len_out[k].done
    /\ len_out' = [len_out EXCEPT ![k] = Done(ParseLength(len_in[k]))]
    /\ UNCHANGED <<pc, len_in, css_out, spacing_out, notLength>>

\* PPTGenerator._parse_css_spacing(len_in[k]).  For an object that is
\* neither a str nor a number the outcome depends on the object: None is
\* answered with 0.0, an object that is true and has no split() raises.
ParseCssSpacingCall(k) ==
    /\ pc = "length"
    /\ ~spacing_out[k].done
    /\ \E outcome \in ParseCssSpacingOf(len_in[k]) :
           spacing_out' = [spacing_out EXCEPT ![k] = outcome]
    /\ UNCHANGED <<pc, len_in, css_out, len_out, notLength>>

NextLength ==
    \/ \E k \in 1..2 : CssValueToPtCall(k)
    \/ \E k \in 1..2 : ParseLengthCall(k)
    \/ \E k \in 1..2 : ParseCssSpacingCall(k)

SpecLength == InitLength /\ [][NextLength]_vars

\* The px and rem spellings of the same length, n rem = 16n px
PxOf(n) == StrValue(Fmt(REM_PX * n) \o <<"p", "x">>)
RemOf(n) == StrValue(Fmt(n) \o <<"r", "e", "m">>)

\* C5: under the default base size, normalizing "16n px" and "n rem" gives
\* exactly equal results for every n, in css_value_to_pt and in
\* PPTGenerator._parse_length; in particular "16px" and "1rem" agree.
C5_PxRemEqual ==
    \A n \in 0..MaxLenNum :
        (len_in[1] = PxOf(n) /\ len_in[2] = RemOf(n)) =>
            /\ (css_out[1].done /\ css_out[2].done) =>
                   /\ css_out[1].val = css_out[2].val
                   /\ css_out[1].val = 12 * n * FloatScale
            /\ (len_out[1].done /\ len_out[2].done) =>
                   /\ len_out[1].val = len_out[2].val
                   /\ len_out[1].val = 16 * n * FloatScale

\* "16px" and "1rem" have both been normalised by both converters
C5_Witness ==
    /\ len_in[1] = PxOf(1) /\ len_in[2] = RemOf(1)
    /\ css_out[1].done /\ css_out[2].done
    /\ len_out[1].done /\ len_out[2].done
    /\ css_out[1].val > 0 /\ len_out[1].val > 0

(***************************************************************************)
(* Overlap resolution (layout_analyzer.py)                                 *)
(***************************************************************************)
\* ElementPosition; lengths are inches in fixed point
ElementPosition(left, top, width, height, z_index, element_type) ==
    [left |-> left, top |-> top, width |-> width, height |-> height,
     z_index |-> z_index, element_type |-> element_type]

\* ElementPosition.overlaps_with
OverlapsWith(self, other) ==
    /\ self.left < other.left + other.width
    /\ self.left + self.width > other.left
    /\ self.top < other.top + other.height
    /\ self.top + self.height > other.top

\* The 0.1 inch a shifted box is put below the box it overlapped
OverlapGap == FloatScale \div 10

\* Mutant: the first box of an overlapping pair is moved below the second
ResolvePair_ShiftFirst(config, ps, i, j) ==
    IF OverlapsWith(ps[i], ps[j]) /\ config.overlap_resolution = "auto_adjust"
    THEN [ps EXCEPT ![i] =
             ElementPosition(ps[i].left,
                             ps[j].top + ps[j].height + OverlapGap,
                             ps[i].width, ps[i].height,
                             ps[i].z_index, ps[i].element_type)]
    ELSE ps

\* The body of the inner loop of _resolve_overlaps for the pair (i, j)
ResolvePair(config, ps, i, j) ==
    IF OverlapsWith(ps[i], ps[j]) /\ config.overlap_resolution = "auto_adjust"
    THEN [ps EXCEPT ![j] =
             ElementPosition(ps[j].left,
                             ps[i].top + ps[i].height + OverlapGap,
                             ps[j].width, ps[j].height,
                             ps[j].z_index, ps[j].element_type)]
    ELSE ps

\* The two nested loops of _resolve_overlaps, from the pair (i, j) on
RECURSIVE ResolveLoop(_, _, _, _)
ResolveLoop(config, ps, i, j) ==
    IF i > Len(ps) THEN ps
    ELSE IF j > Len(ps) THEN ResolveLoop(config, ps, i + 1, i + 2)
    ELSE ResolveLoop(config, ResolvePair(config, ps, i, j), i, j + 1)

\* SmartPositionCalculator._resolve_overlaps
ResolveOverlaps(config, ps) ==
    IF ~config.overlap_detection THEN ps ELSE ResolveLoop(config, ps, 1, 2)

(***************************************************************************)
(* SpecOverlap: the resolver runs on a list of boxes, then on its output   *)
(***************************************************************************)
MaxBoxes == 3
MaxBoxTop == 2
MaxBoxHeight == 2

\* Boxes lie on a grid of 0.1 inch, in two columns one box wide
BoxUnit == FloatScale \div 10
BoxLefts == {0, BoxUnit}

\* The boxes a position calculator hands over: the first is the title, all
\* carry the default z_index
InputBoxes(k) ==
    { ElementPosition(l, t * BoxUnit, BoxUnit, h * BoxUnit, 0,
                      IF k = 1 THEN "title" ELSE "content") :
        l \in BoxLefts, t \in 0..MaxBoxTop, h \in 1..MaxBoxHeight }

\* The lists of n boxes: box k of a list is one of InputBoxes(k)
InputLists(n) ==
    { [k \in 1..n |-> IF k = 1 THEN [ps[k] EXCEPT !.element_type = "title"] ELSE ps[k]] :
        ps \in [1..n -> InputBoxes(2)] }

OverlapConfigs ==
    { [overlap_detection |-> TRUE, overlap_resolution |-> "auto_adjust"],
      [overlap_detection |-> TRUE, overlap_resolution |-> "manual"],
      [overlap_detection |-> FALSE, overlap_resolution |-> "auto_adjust"] }

InitOverlap ==
    /\ pc = "overlap"
    /\ ov_config \in OverlapConfigs
    /\ \E n \in 0..MaxBoxes : positions \in InputLists(n)
    /\ resolved = <<>>
    /\ Idle("overlap")

\* positions = self._resolve_overlaps(positions): the first run takes the
\* calculator's boxes, a further run takes the previous run's result
ResolveOverlapsCall ==
    /\ pc = "overlap"
    /\ Len(resolved) < 2
    /\ resolved' = Append(resolved,
                          ResolveOverlaps(ov_config,
                                          IF resolved = <<>> THEN positions
                                          ELSE resolved[Len(resolved)]))
    /\ UNCHANGED <<pc, ov_config, positions, notOverlap>>

NextOverlap == ResolveOverlapsCall

SpecOverlap == InitOverlap /\ [][NextOverlap]_vars

AutoAdjust ==
    ov_config.overlap_detection /\ ov_config.overlap_resolution = "auto_adjust"

NoTwoOverlap(ps) ==
    \A a, b \in 1..Len(ps) : a # b => ~OverlapsWith(ps[a], ps[b])

\* C2: with overlap detection enabled and resolution 'auto_adjust', no two
\* boxes of the list the Overlap Resolver returns intersect.
C2_NoOverlapAfterResolve ==
    (AutoAdjust /\ Len(resolved) >= 1) => NoTwoOverlap(resolved[1])

\* C3: the Overlap Resolver is idempotent: a second run on its own output
\* changes nothing, resolve(resolve(P)) = resolve(P).
C3_ResolveIdempotent ==
    (AutoAdjust /\ Len(resolved) = 2) => resolved[2] = resolved[1]

(***************************************************************************)
(* Style resolution                                                        *)
(***************************************************************************)
\* A Python dict that is iterated: the sequence of its [key, val] items in
\* insertion order.  d[key] = val keeps the place of a key already present.
DictHas(d, key) == \E k \in 1..Len(d) : d[k].key = key
DictGet(d, key) == d[CHOOSE k \in 1..Len(d) : d[k].key = key].val
DictSet(d, key, val) ==
    IF DictHas(d, key)
    THEN [k \in 1..Len(d) |-> IF d[k].key = key THEN [key |-> key, val |-> val]
                                                 ELSE d[k]]
    ELSE Append(d, [key |-> key, val |-> val])

\* A style dict (property -> value), read by key only: a function.
\* dict.update(other)
Update(d, other) ==
    [p \in DOMAIN d \cup DOMAIN other |-> IF p \in DOMAIN other THEN other[p] ELSE d[p]]

\* The loop of CSSProcessor.parse_css_file over the sheet's style rules:
\* a rule without properties is not stored
RECURSIVE ParseCssFile(_)
ParseCssFile(rules) ==
    IF rules = <<>> THEN <<>>
    ELSE LET styles == ParseCssFile(DropLast(rules, 1))
             rule == rules[Len(rules)]
         IN  IF DOMAIN rule.style # {} THEN DictSet(styles, rule.selectorText, rule.style)
             ELSE styles

\* parse_css_styles (convert_to_pdf.py): every style rule is stored
RECURSIVE ParseCssStyles(_)
ParseCssStyles(rules) ==
    IF rules = <<>> THEN <<>>
    ELSE LET rule == rules[Len(rules)]
         IN  DictSet(ParseCssStyles(DropLast(rules, 1)), rule.selectorText, rule.style)

\* The declarations of a style attribute, split at ";": each piece is the
\* sequence of its tokens, ":" being a token of its own
RECURSIVE SplitSemicolon(_)
SplitSemicolon(tokens) ==
    IF \E k \in 1..Len(tokens) : tokens[k] = ";"
    THEN LET k == CHOOSE x \in 1..Len(tokens) :
                      tokens[x] = ";" /\ \A y \in 1..(x - 1) : tokens[y] # ";"
         IN  <<SubSeq(tokens, 1, k - 1)>> \o SplitSemicolon(SubSeq(tokens, k + 1, Len(tokens)))
    ELSE <<tokens>>

\* "".join of the tokens of a value
RECURSIVE Join(_)
Join(tokens) == IF tokens = <<>> THEN "" ELSE Head(tokens) \o Join(Tail(tokens))

\* CSSProcessor._parse_inline_style: a piece with a ":" sets the property
\* before its first ":" to the text after it; later pieces overwrite
RECURSIVE InlineRules(_)
InlineRules(pieces) ==
    IF pieces = <<>> THEN <<>>
    ELSE LET styles == InlineRules(DropLast(pieces, 1))
             rule == pieces[Len(pieces)]
         IN  IF \E k \in 1..Len(rule) : rule[k] = ":"
             THEN LET k == CHOOSE x \in 1..Len(rule) :
                               rule[x] = ":" /\ \A y \in 1..(x - 1) : rule[y] # ":"
                      prop == Join(SubSeq(rule, 1, k - 1))
                      value == Join(SubSeq(rule, k + 1, Len(rule)))
                  IN  Update(styles, [p \in {prop} |-> value])
             ELSE styles

ParseInlineStyle(style_str) == InlineRules(SplitSemicolon(style_str))

\* The styles of the dict items whose selector is one of sels, merged in
\* the dict's order
RECURSIVE UpdateMatching(_, _, _)
UpdateMatching(acc, styles, sels) ==
    IF styles = <<>> THEN acc
    ELSE UpdateMatching(IF Head(styles).key \in sels THEN Update(acc, Head(styles).val)
                        ELSE acc,
                        Tail(styles), sels)

\* The class loop of CSSProcessor.compute_element_style
RECURSIVE ComputeClasses(_, _, _, _)
ComputeClasses(acc, tag_name, classes, styles) ==
    IF classes = <<>> THEN acc
    ELSE ComputeClasses(UpdateMatching(acc, styles,
                                       {"." \o Head(classes),
                                        tag_name \o "." \o Head(classes)}),
                        tag_name, Tail(classes), styles)

\* Steps 3 and 4 of every resolver: the id rule, then the style attribute
IdAndInline(acc, el, styles) ==
    LET with_id == IF el.has_id /\ DictHas(styles, "#" \o el.id)
                   THEN Update(acc, DictGet(styles, "#" \o el.id)) ELSE acc
    IN  IF el.has_style THEN Update(with_id, ParseInlineStyle(el.style)) ELSE with_id

\* Mutant: the id rule is applied before the class rules
ComputeElementStyle_IdFirst(el, styles) ==
    LET tagged == UpdateMatching(<<>>, styles, {el.name})
        with_id == IF el.has_id /\ DictHas(styles, "#" \o el.id)
                   THEN Update(tagged, DictGet(styles, "#" \o el.id)) ELSE tagged
        classed == IF el.has_class
                   THEN ComputeClasses(with_id, el.name, el.class, styles) ELSE with_id
    IN  IF el.has_style THEN Update(classed, ParseInlineStyle(el.style)) ELSE classed

\* CSSProcessor.compute_element_style
ComputeElementStyle(el, styles) ==
    LET tagged == UpdateMatching(<<>>, styles, {el.name})
        classed == IF el.has_class
                   THEN ComputeClasses(tagged, el.name, el.class, styles) ELSE tagged
    IN  IdAndInline(classed, el, styles)

\* The class loop of TextProcessor._get_element_style: ".c", then "tag.c";
\* with_tag is FALSE for get_element_style of convert_to_pdf.py, which
\* looks up ".c" only
RECURSIVE LookupClasses(_, _, _, _, _)
LookupClasses(acc, tag_name, classes, styles, with_tag) ==
    IF classes = <<>> THEN acc
    ELSE LET sel == "." \o Head(classes)
             comb == tag_name \o "." \o Head(classes)
             a1 == IF DictHas(styles, sel) THEN Update(acc, DictGet(styles, sel)) ELSE acc
             a2 == IF with_tag /\ DictHas(styles, comb)
                   THEN Update(a1, DictGet(styles, comb)) ELSE a1
         IN  LookupClasses(a2, tag_name, Tail(classes), styles, with_tag)

\* The resolvers that look selectors up: tag, classes, id, style attribute
LookupStyle(el, styles, with_tag) ==
    LET tagged == IF DictHas(styles, el.name) THEN DictGet(styles, el.name) ELSE <<>>
        classed == IF el.has_class
                   THEN LookupClasses(tagged, el.name, el.class, styles, with_tag)
                   ELSE tagged
    IN  IdAndInline(classed, el, styles)

\* TextProcessor._get_element_style (html2pptx.py)
TextGetElementStyle(el, styles) == LookupStyle(el, styles, TRUE)

\* get_element_style (convert_to_pdf.py)
GetElementStyle(tag, style_map) == LookupStyle(tag, style_map, FALSE)

(***************************************************************************)
(* SpecStyle: a stylesheet is parsed, then one node's style is resolved    *)
(***************************************************************************)
MaxRules == 3

StyleRule(selector, style) == [selectorText |-> selector, style |-> style]

\* The style rules a sheet may hold: each sets color, one sets nothing
SheetRules ==
    { StyleRule(sel, [p \in {"color"} |-> v]) :
        sel \in {"p", ".box", ".hl", "p.box", "#main"},
        v \in {"#ff0000", "#0000ff"} }
    \cup { StyleRule(".box", <<>>) }

Sheets == UNION { [1..n -> SheetRules] : n \in 0..MaxRules }

Element(name, classes, ids, styles) ==
    [name |-> name,
     has_class |-> classes # <<>>, class |-> IF classes = <<>> THEN <<>> ELSE classes[1],
     has_id |-> ids # <<>>, id |-> IF ids = <<>> THEN "" ELSE ids[1],
     has_style |-> styles # <<>>, style |-> IF styles = <<>> THEN <<>> ELSE styles[1]]

\* <p> nodes: the attributes are optional (<<>> = attribute absent)
Elements ==
    { Element("p", c, i, st) :
        c \in { <<>>, << <<"box">> >>, << <<"box", "hl">> >>, << <<"hl", "box">> >> },
        i \in { <<>>, <<"main">> },
        st \in { <<>>, << <<"color", ":", "#00ff00">> >>, << <<"color">> >> } }

InitStyle ==
    /\ pc = "style"
    /\ css_rules \in Sheets
    /\ all_styles = <<>>
    /\ element \in Elements
    /\ computed = <<>>
    /\ Idle("style")

\* styles = self.css_processor.parse_css_file(css_content);
\* all_styles.update(styles)   (PPTGenerator.convert, with all_styles = {})
ParseCssFileCall ==
    /\ pc = "style"
    /\ pc' = "styles_html2pptx"
    /\ all_styles' = ParseCssFile(css_rules)
    /\ UNCHANGED <<css_rules, element, computed, notStyle>>

\* style_map = parse_css_styles(css_content)
ParseCssStylesCall ==
    /\ pc = "style"
    /\ pc' = "styles_convert_to_pdf"
    /\ all_styles' = ParseCssStyles(css_rules)
    /\ UNCHANGED <<css_rules, element, computed, notStyle>>

Resolved(by, style) == <<[by |-> by, style |-> style]>>

\* self.css_processor.compute_element_style(container, all_styles)
ComputeElementStyleCall ==
    /\ pc = "styles_html2pptx"
    /\ pc' = "resolved"
    /\ computed' = Resolved("compute_element_style",
                            ComputeElementStyle(element, all_styles))
    /\ UNCHANGED <<css_rules, all_styles, element, notStyle>>

\* self._get_element_style(element, styles)   (TextProcessor)
TextGetElementStyleCall ==
    /\ pc = "styles_html2pptx"
    /\ pc' = "resolved"
    /\ computed' = Resolved("_get_element_style",
                            TextGetElementStyle(element, all_styles))
    /\ UNCHANGED <<css_rules, all_styles, element, notStyle>>

\* get_element_style(children_content_tag, style_map)
GetElementStyleCall ==
    /\ pc = "styles_convert_to_pdf"
    /\ pc' = "resolved"
    /\ computed' = Resolved("get_element_style",
                            GetElementStyle(element, all_styles))
    /\ UNCHANGED <<css_rules, all_styles, element, notStyle>>

NextStyle ==
    \/ ParseCssFileCall
    \/ ParseCssStylesCall
    \/ ComputeElementStyleCall
    \/ TextGetElementStyleCall
    \/ GetElementStyleCall

SpecStyle == InitStyle /\ [][NextStyle]_vars

\* The rules of the dict that match the element and set prop, by kind
SetsProp(styles, sel, prop) == DictHas(styles, sel) /\ prop \in DOMAIN DictGet(styles, sel)
IdRule(styles, el, prop) == el.has_id /\ SetsProp(styles, "#" \o el.id, prop)
\* with_tag: the resolver also matches tag.class selectors (html2pptx.py)
ClassRules(styles, el, prop, with_tag) ==
    ({ "." \o el.class[k] : k \in 1..Len(el.class) }
       \cup (IF with_tag
             THEN { el.name \o "." \o el.class[k] : k \in 1..Len(el.class) }
             ELSE {}))
    \cap { sel \in { styles[k].key : k \in 1..Len(styles) } : SetsProp(styles, sel, prop) }
InlineSets(el, prop) == el.has_style /\ prop \in DOMAIN ParseInlineStyle(el.style)

\* C1: declarations apply in the priority tag < class < id < inline.  When a
\* tag rule, a class rule and an id rule all match the node and set color,
\* the resolved color is the id rule's; with no id rule matching it is the
\* class rule's; an inline color declaration wins over all of them.
C1_CascadePriority ==
    (pc = "resolved") =>
        LET st == computed[1].style
            classes == ClassRules(all_styles, element, "color",
                                  computed[1].by # "get_element_style")
        IN  /\ InlineSets(element, "color") =>
                /\ "color" \in DOMAIN st
                /\ st["color"] = "#00ff00"
            /\ (~InlineSets(element, "color") /\ IdRule(all_styles, element, "color")) =>
                /\ "color" \in DOMAIN st
                /\ st["color"] = DictGet(all_styles, "#" \o element.id)["color"]
            /\ (/\ ~InlineSets(element, "color")
                /\ ~IdRule(all_styles, element, "color")
                /\ classes # {}) =>
                /\ "color" \in DOMAIN st
                /\ \E sel \in classes : st["color"] = DictGet(all_styles, sel)["color"]
                /\ Cardinality(classes) = 1 =>
                       \A sel \in classes : st["color"] = DictGet(all_styles, sel)["color"]

\* A tag rule, a class rule and an id rule with different colors than the
\* inline declaration all match and the style has been resolved; and the
\* same without inline declaration
C1_Witness ==
    /\ pc = "resolved"
    /\ computed[1].by = "compute_element_style"
    /\ SetsProp(all_styles, element.name, "color")
    /\ ClassRules(all_styles, element, "color", TRUE) # {}
    /\ IdRule(all_styles, element, "color")
    /\ DictGet(all_styles, "p")["color"] # DictGet(all_styles, "#main")["color"]
    /\ DictGet(all_styles, ".box")["color"] # DictGet(all_styles, "#main")["color"]
    /\ InlineSets(element, "color")
    /\ computed[1].style["color"] = "#00ff00"

(***************************************************************************)
(* Layout (html2pptx.py): lengths are inches in fixed point                *)
(***************************************************************************)
DEFAULT_PADDING == 60
SLIDE_WIDTH_INCHES == (1333 * FloatScale) \div 100
SLIDE_HEIGHT_INCHES == (75 * FloatScale) \div 10
MIN_ELEMENT_HEIGHT == (3 * FloatScale) \div 10

\* px_to_inches(n) for a literal n
Px(n) == PxToInches(n * FloatScale)

\* sub in s
Contains(s, sub) ==
    \E k \in 0..(Len(s) - Len(sub)) : SubSeq(s, k + 1, k + Len(sub)) = sub

\* dict.get(key, default)
Get(style, key, default) == IF key \in DOMAIN style THEN style[key] ELSE default

HeadingTags == {"h1", "h2", "h3", "h4", "h5", "h6"}

\* LayoutAnalyzer.analyze_slide_layout: the container's class list and its
\* Tag children decide type and columns
AnalyzeSlideLayout(container) ==
    LET children == container.children
        titles == { k \in 1..Len(children) : children[k].tag \in {"h1", "h2"} }
        first_title == CHOOSE k \in titles : \A j \in titles : k <= j
        flex_containers == { k \in 1..Len(children) : children[k].flex }
        detected == [type |-> IF flex_containers # {} THEN "multi_column" ELSE "standard",
                     columns |-> IF flex_containers # {}
                                 THEN Cardinality(flex_containers) ELSE 1,
                     has_title |-> titles # {},
                     has_subtitle |-> titles # {} /\ children[first_title].tag = "h2"]
        RECURSIVE classes(_, _)
        classes(info, k) ==
            IF k > Len(container.class) THEN info
            ELSE LET class_name == Lower(container.class[k])
                 IN  classes(IF Contains(class_name, <<"t", "i", "t", "l", "e">>)
                             THEN [info EXCEPT !.type = "title_slide"]
                             ELSE IF Contains(class_name, <<"t", "w", "o", "-", "c", "o", "l", "u", "m", "n">>)
                             THEN [info EXCEPT !.type = "two_column", !.columns = 2]
                             ELSE IF Contains(class_name, <<"d", "a", "t", "a">>)
                             THEN [info EXCEPT !.type = "data_slide"]
                             ELSE info,
                             k + 1)
    IN  classes(detected, 1)

Bounds(left, top, width, height) ==
    [left |-> left, top |-> top, width |-> width, height |-> height]

\* The top, right, bottom and left of a shorthand of 1, 2 or 4 lengths
Sides(len, default) ==
    IF Len(len) = 1
    THEN [top |-> len[1], right |-> len[1], bottom |-> len[1], left |-> len[1]]
    ELSE IF Len(len) = 2
    THEN [top |-> len[1], right |-> len[2], bottom |-> len[1], left |-> len[2]]
    ELSE IF Len(len) = 4
    THEN [top |-> len[1], right |-> len[2], bottom |-> len[3], left |-> len[4]]
    ELSE [top |-> default, right |-> default, bottom |-> default, left |-> default]

\* PPTGenerator.calculate_layout_bounds
CalculateLayoutBounds(slide_style) ==
    LET parts == IF "padding" \in DOMAIN slide_style
                 THEN SplitWs(slide_style["padding"])
                 ELSE <<Fmt(DEFAULT_PADDING)>>
        inside(p) == Bounds(p.left, p.top,
                            SLIDE_WIDTH_INCHES - p.left - p.right,
                            SLIDE_HEIGHT_INCHES - p.top - p.bottom)
    IN  inside(Sides([k \in 1..Len(parts) |->
                         PxToInches(ParseLength(StrValue(parts[k])))],
                     Px(DEFAULT_PADDING)))

\* PPTGenerator._calculate_element_height
CalculateElementHeight(elem) ==
    LET char_count == Len(elem.content)
        newlines == Cardinality({ k \in 1..char_count : elem.content[k] = "\n" })
        base_height ==
            IF elem.type = "heading" \/ elem.tag \in HeadingTags
            THEN IF elem.tag = "h1" THEN Px(85)
                 ELSE IF elem.tag = "h2" THEN Px(70)
                 ELSE IF elem.tag = "h3" THEN Px(55)
                 ELSE IF elem.tag = "h4" THEN Px(45)
                 ELSE Px(40)
            ELSE IF elem.type = "list" THEN Px(45 + Len(elem.items) * 32)
            ELSE IF elem.type = "code" THEN Px(55 + (newlines + 1) * 25)
            ELSE IF elem.type = "quote"
            THEN Px(50 + Max(1, char_count \div 50 + 1) * 28)
            ELSE IF elem.type \in {"paragraph", "text_block"}
            THEN IF char_count <= 50 THEN Px(45)
                 ELSE IF char_count <= 150 THEN Px(60)
                 ELSE IF char_count <= 300 THEN Px(80)
                 ELSE Px(35 + Max(2, char_count \div 60 + 1) * 25)
            ELSE IF elem.type = "inline_text" THEN Px(35)
            ELSE Px(35 + Max(2, char_count \div 70 + 1) * 22)
    IN  Max(Px(35), Min(base_height, Px(250)))

\* PPTGenerator._get_enhanced_element_spacing
GetEnhancedElementSpacing(element_type, tag) ==
    IF element_type = "heading" \/ tag \in HeadingTags
    THEN IF tag = "h1" THEN Px(24) ELSE IF tag = "h2" THEN Px(20) ELSE Px(16)
    ELSE IF element_type = "list" THEN Px(18)
    ELSE IF element_type = "code" THEN Px(20)
    ELSE IF element_type = "quote" THEN Px(16)
    ELSE IF element_type \in {"paragraph", "text_block"} THEN Px(14)
    ELSE Px(12)

\* PPTGenerator._parse_css_spacing
ParseCssSpacing(value) ==
    LET parts == SplitWs(value)
    IN  IF value = <<>> \/ value = <<"0">> \/ parts = <<>> THEN 0
        ELSE PxToInches(ParseLength(StrValue(parts[1])))

\* PPTGenerator._parse_margin_shorthand
ParseMarginShorthand(margin) ==
    LET parts == SplitWs(margin)
    IN  Sides([k \in 1..Len(parts) |-> ParseCssSpacing(parts[k])], 0)

\* PPTGenerator._calculate_element_layout
CalculateElementLayout(elem, content_bounds, current_y) ==
    LET style == elem.style
        text_align == Get(style, "text-align", <<"l", "e", "f", "t">>)
        right_edge == content_bounds.left + content_bounds.width
        \* the margins: the four margin-* properties, or the margin
        \* shorthand when it is present and all four are 0
        margins(spacing) ==
            IF /\ "margin" \in DOMAIN style
               /\ \A prop \in {"margin-top", "margin-bottom", "margin-left",
                                "margin-right"} : spacing[prop] = 0
            THEN ParseMarginShorthand(style["margin"])
            ELSE [top |-> spacing["margin-top"], right |-> spacing["margin-right"],
                  bottom |-> spacing["margin-bottom"], left |-> spacing["margin-left"]]
        at(left, width) == [left |-> left, width |-> width]
        by_type(element_left, available_width) ==
            IF elem.type = "heading" \/ elem.tag \in HeadingTags
            THEN at(element_left, available_width)
            ELSE IF elem.type = "list"
            THEN at(element_left + Px(24), available_width - Px(24))
            ELSE IF elem.type = "code"
            THEN at(element_left + Px(8), available_width - Px(8) * 2)
            ELSE IF elem.type = "quote"
            THEN at(element_left + Px(32), available_width - Px(32) * 2)
            ELSE IF elem.type \in {"paragraph", "text_block"}
            THEN IF text_align = <<"c", "e", "n", "t", "e", "r">>
                 THEN at(element_left + Px(16), available_width - Px(16) * 2)
                 ELSE IF text_align = <<"r", "i", "g", "h", "t">>
                 THEN at(element_left, available_width - Px(16))
                 ELSE at(element_left, available_width)
            ELSE at(element_left, available_width)
        \* at least 100px wide, and not beyond the content's right edge
        clip(left, min_width) ==
            at(left, IF left + min_width > right_edge THEN right_edge - left
                     ELSE min_width)
        clipped(b) == clip(b.left, Max(b.width, Px(100)))
        result(spacing, m, b) ==
            [left |-> b.left,
             top |-> current_y + m.top,
             width |-> b.width,
             height |-> CalculateElementHeight(elem),
             margin_bottom |-> m.bottom,
             padding |-> spacing["padding"]]
        with_margins(spacing, m) ==
            result(spacing, m,
                   clipped(by_type(content_bounds.left + m.left,
                                   content_bounds.width - m.left - m.right)))
        with_spacing(spacing) == with_margins(spacing, margins(spacing))
    IN  \* margin-top, margin-bottom, margin-left, margin-right (default '0')
        \* and padding (default '4')
        with_spacing([prop \in {"margin-top", "margin-bottom", "margin-left",
                                "margin-right", "padding"} |->
                         ParseCssSpacing(Get(style, prop,
                                             IF prop = "padding" THEN <<"4">>
                                             ELSE <<"0">>))])

\* The bounds handed to _create_element_textbox for text_elements[i]
Placed(i, left, top, width, height) ==
    [i |-> i, left |-> left, top |-> top, width |-> width, height |-> height]

\* PPTGenerator._layout_standard: the text boxes created, in creation order
LayoutStandard(text_elements, content_bounds) ==
    LET bottom == content_bounds.top + content_bounds.height
        RECURSIVE loop(_, _, _)
        \* the body of the loop for text_elements[i] once its layout is known
        place(i, acc, element_layout, spacing) ==
            LET over == element_layout.top + element_layout.height > bottom
                remaining_height == bottom - element_layout.top
                height == IF over THEN remaining_height ELSE element_layout.height
            IN  IF over /\ remaining_height < MIN_ELEMENT_HEIGHT
                THEN acc
                ELSE loop(i + 1,
                          element_layout.top + height + element_layout.margin_bottom
                            + spacing,
                          Append(acc, Placed(i, element_layout.left, element_layout.top,
                                             element_layout.width, height)))
        loop(i, current_y, acc) ==
            IF i > Len(text_elements) THEN acc
            ELSE place(i, acc,
                       CalculateElementLayout(text_elements[i], content_bounds, current_y),
                       GetEnhancedElementSpacing(text_elements[i].type,
                                                 text_elements[i].tag))
    IN  loop(1, content_bounds.top, <<>>)

\* PPTGenerator._layout_title_slide
LayoutTitleSlide(text_elements, content_bounds) ==
    LET RECURSIVE sum(_)
        sum(k) == IF k = 0 THEN 0
                  ELSE sum(k - 1) + CalculateElementHeight(text_elements[k])
        total_height == sum(Len(text_elements))
        total_spacing == Len(text_elements) * Px(20)
        start_y == content_bounds.top
                   + (content_bounds.height - total_height - total_spacing) \div 2
        element_width == (content_bounds.width * 9) \div 10
        element_left == content_bounds.left + (content_bounds.width - element_width) \div 2
        RECURSIVE loop(_, _, _)
        loop(i, current_y, acc) ==
            IF i > Len(text_elements) THEN acc
            ELSE LET element_height == CalculateElementHeight(text_elements[i])
                 IN  loop(i + 1, current_y + element_height + Px(20),
                          Append(acc, Placed(i, element_left, current_y,
                                             element_width, element_height)))
    IN  loop(1, Max(start_y, content_bounds.top), <<>>)

\* PPTGenerator._layout_two_column
LayoutTwoColumn(text_elements, content_bounds) ==
    LET col_gap == Px(30)
        col_width == (content_bounds.width - col_gap) \div 2
        left_col_left == content_bounds.left
        right_col_left == content_bounds.left + col_width + col_gap
        RECURSIVE loop(_, _, _, _)
        loop(i, left_y, right_y, acc) ==
            IF i > Len(text_elements) THEN acc
            ELSE LET elem == text_elements[i]
                     height == CalculateElementHeight(elem)
                     spacing == GetEnhancedElementSpacing(elem.type, elem.tag)
                 IN  IF elem.tag \in {"h1", "h2"} /\ i = 1
                     THEN loop(i + 1, left_y + height + spacing, left_y + height + spacing,
                               Append(acc, Placed(i, content_bounds.left, left_y,
                                                  content_bounds.width, height)))
                     ELSE IF (i - 1) % 2 = 1
                     THEN loop(i + 1, left_y + height + spacing, right_y,
                               Append(acc, Placed(i, left_col_left, left_y, col_width, height)))
                     ELSE loop(i + 1, left_y, right_y + height + spacing,
                               Append(acc, Placed(i, right_col_left, right_y, col_width, height)))
    IN  loop(1, content_bounds.top, content_bounds.top, <<>>)

\* PPTGenerator._layout_multi_column
LayoutMultiColumn(text_elements, content_bounds) ==
    LET num_elements == Len(text_elements)
        num_cols == IF num_elements <= 3 THEN 2 ELSE IF num_elements <= 6 THEN 3 ELSE 4
        col_gap == Px(24)
        col_width == (content_bounds.width - col_gap * (num_cols - 1)) \div num_cols
        col_positions == [c \in 1..num_cols |->
                            content_bounds.left + (c - 1) * (col_width + col_gap)]
        RECURSIVE loop(_, _, _)
        loop(i, col_y_positions, acc) ==
            IF i > num_elements THEN acc
            ELSE LET elem == text_elements[i]
                     height == CalculateElementHeight(elem)
                     spacing == GetEnhancedElementSpacing(elem.type, elem.tag)
                     col_index == CHOOSE c \in 1..num_cols :
                                     /\ \A d \in 1..num_cols :
                                            col_y_positions[c] <= col_y_positions[d]
                                     /\ \A d \in 1..(c - 1) :
                                            col_y_positions[d] > col_y_positions[c]
                 IN  IF elem.tag \in {"h1", "h2"} /\ i = 1
                     THEN loop(i + 1,
                               [c \in 1..num_cols |-> content_bounds.top + height + spacing],
                               Append(acc, Placed(i, content_bounds.left, content_bounds.top,
                                                  content_bounds.width, height)))
                     ELSE loop(i + 1,
                               [col_y_positions EXCEPT ![col_index] = @ + height + spacing],
                               Append(acc, Placed(i, col_positions[col_index],
                                                  col_y_positions[col_index],
                                                  col_width, height)))
    IN  loop(1, [c \in 1..num_cols |-> content_bounds.top], <<>>)

\* PPTGenerator._layout_elements
LayoutElements(text_elements, content_bounds, layout_info) ==
    IF layout_info.type = "title_slide"
    THEN LayoutTitleSlide(text_elements, content_bounds)
    ELSE IF layout_info.type = "two_column"
    THEN LayoutTwoColumn(text_elements, content_bounds)
    ELSE IF layout_info.type = "multi_column"
    THEN LayoutMultiColumn(text_elements, content_bounds)
    ELSE LayoutStandard(text_elements, content_bounds)

\* TextProcessor.extract_all_text_elements for a container whose children
\* are leaf nodes: one text element per child with text, in document order,
\* its style merged over the container's
ExtractAllTextElements(container) ==
    LET text_element(type, node, content, items) ==
            [type |-> type, tag |-> node.tag, content |-> content, items |-> items,
             style |-> Update(container.style, node.style)]
        of(node) ==
            LET full_text == Strip(node.text)
                list_items == SelectSeq([k \in 1..Len(node.items) |-> Strip(node.items[k])],
                                        LAMBDA li_text : li_text # <<>>)
            IN  IF node.tag \in HeadingTags
                THEN IF full_text # <<>>
                     THEN <<text_element("heading", node, full_text, <<>>)>> ELSE <<>>
                ELSE IF node.tag = "p"
                THEN IF full_text # <<>>
                     THEN <<text_element("paragraph", node, full_text, <<>>)>> ELSE <<>>
                ELSE IF node.tag \in {"ul", "ol"}
                THEN IF list_items # <<>>
                     THEN <<text_element("list", node, <<>>, list_items)>> ELSE <<>>
                ELSE IF node.tag = "blockquote"
                THEN IF full_text # <<>>
                     THEN <<text_element("quote", node, full_text, <<>>)>> ELSE <<>>
                ELSE IF node.tag = "pre"
                THEN IF full_text # <<>>
                     THEN <<text_element("code", node, full_text, <<>>)>> ELSE <<>>
                ELSE IF node.tag \in {"div", "section", "article"}
                THEN IF full_text # <<>>
                     THEN <<text_element("text_block", node, full_text, <<>>)>> ELSE <<>>
                ELSE IF node.tag \in {"span", "strong", "em", "b", "i"}
                THEN IF full_text # <<>>
                     THEN <<text_element("inline_text", node, full_text, <<>>)>> ELSE <<>>
                ELSE <<>>
        RECURSIVE extract(_)
        extract(k) == IF k = 0 THEN <<>> ELSE extract(k - 1) \o of(container.children[k])
    IN  extract(Len(container.children))

(***************************************************************************)
(* Layout (layout_analyzer.py)                                             *)
(***************************************************************************)
\* AdvancedLayoutAnalyzer._has_flex_layout
HasFlexLayout(style) == Contains(Get(style, "display", <<>>), <<"f", "l", "e", "x">>)

\* AdvancedLayoutAnalyzer._detect_layout_type
DetectLayoutType(container) ==
    LET has(class_lower, keywords) == \E w \in keywords : Contains(class_lower, w)
        RECURSIVE by_class(_)
        by_class(k) ==
            IF k > Len(container.class) THEN "none"
            ELSE LET class_lower == Lower(container.class[k])
                 IN  IF has(class_lower, {<<"t", "i", "t", "l", "e">>}) THEN "title_slide"
                     ELSE IF has(class_lower, {<<"t", "w", "o", "-", "c", "o", "l", "u", "m", "n">>, <<"d", "u", "a", "l">>})
                     THEN "two_column"
                     ELSE IF has(class_lower, {<<"t", "h", "r", "e", "e", "-", "c", "o", "l", "u", "m", "n">>, <<"t", "r", "i", "p", "l", "e">>})
                     THEN "three_column"
                     ELSE IF has(class_lower, {<<"d", "a", "t", "a">>, <<"c", "h", "a", "r", "t">>})
                     THEN "data_slide"
                     ELSE IF has(class_lower, {<<"q", "u", "o", "t", "e">>, <<"t", "e", "s", "t", "i", "m", "o", "n", "i", "a", "l">>})
                     THEN "quote_slide"
                     ELSE IF has(class_lower, {<<"c", "o", "n", "c", "l", "u", "s", "i", "o", "n">>, <<"s", "u", "m", "m", "a", "r", "y">>})
                     THEN "conclusion_slide"
                     ELSE IF has(class_lower, {<<"t", "h", "a", "n", "k">>}) THEN "thank_you_slide"
                     ELSE by_class(k + 1)
        children == container.children
        count(P(_)) == Cardinality({ k \in 1..Len(children) : P(children[k]) })
        h1_count == count(LAMBDA child : child.tag = "h1")
        h2_count == count(LAMBDA child : child.tag = "h2")
        flex_containers == count(LAMBDA child : HasFlexLayout(child.style))
        stat_boxes == count(LAMBDA child :
                          \E c \in 1..Len(child.class) :
                              has(child.class[c], {<<"s", "t", "a", "t">>, <<"d", "a", "t", "a">>,
                                                   <<"m", "e", "t", "r", "i", "c">>, <<"n", "u", "m", "b", "e", "r">>}))
    IN  IF by_class(1) # "none" THEN by_class(1)
        ELSE IF h1_count = 1 /\ h2_count <= 2 /\ Len(children) <= 4 THEN "title_slide"
        ELSE IF flex_containers >= 2 THEN "multi_column"
        ELSE IF stat_boxes >= 3 THEN "data_slide"
        ELSE "content_slide"

\* AdvancedLayoutAnalyzer._detect_column_count
DetectColumnCount(container) ==
    LET children == container.children
        count(P(_)) == Cardinality({ k \in 1..Len(children) : P(children[k]) })
        direction == Get(container.style, "flex-direction", <<"r", "o", "w">>)
        flex_items == count(LAMBDA child :
                          \E prop \in {"flex-grow", "flex-shrink", "flex-basis", "flex"} :
                              prop \in DOMAIN child.style)
        column_containers == count(LAMBDA child :
                                 \E c \in 1..Len(child.class) :
                                     \E keyword \in {<<"c", "o", "l", "u", "m", "n">>, <<"c", "o", "l", "-">>, <<"g", "r", "i", "d", "-">>} :
                                         Contains(Lower(child.class[c]), keyword))
        float_elements == count(LAMBDA child :
                              Get(child.style, "float", <<>>) \in {<<"l", "e", "f", "t">>, <<"r", "i", "g", "h", "t">>})
    IN  IF HasFlexLayout(container.style) /\ direction \in {<<"r", "o", "w">>, <<"r", "o", "w", "-", "r", "e", "v", "e", "r", "s", "e">>}
        THEN IF flex_items > 0 THEN flex_items ELSE 1
        ELSE IF column_containers > 0 THEN column_containers
        ELSE IF float_elements > 0 THEN float_elements
        ELSE 1

\* AdvancedLayoutAnalyzer.analyze_slide_layout: the entries of layout_info
\* that SmartPositionCalculator reads
AdvancedAnalyzeSlideLayout(container) ==
    [type |-> DetectLayoutType(container), columns |-> DetectColumnCount(container)]

\* n / 10 as a float
Tenths(n) == (n * FloatScale) \div 10

\* SmartPositionCalculator._estimate_element_height
EstimateElementHeight(elem) ==
    LET level == IF "level" \in DOMAIN elem THEN elem.level ELSE 1
    IN  IF elem.type = "heading"
        THEN IF level = 1 THEN Tenths(10) ELSE IF level = 2 THEN Tenths(8) ELSE Tenths(6)
        ELSE IF elem.type = "list"
        THEN Max(Tenths(4), Len(elem.items) * Tenths(3))
        ELSE Max(Tenths(4), Max(1, Len(elem.content) \div 80) * Tenths(3))

\* The area inside the paddings of the TemplateConfig
AvailableArea(config) ==
    Bounds(Px(config.padding_left), Px(config.padding_top),
           config.slide_width_inches - Px(config.padding_left + config.padding_right),
           config.slide_height_inches - Px(config.padding_top + config.padding_bottom))

\* SmartPositionCalculator._calculate_title_slide_positions
CalculateTitleSlidePositions(config, elements) ==
    LET area == AvailableArea(config)
        centred(ratio, top, height, element_type) ==
            LET width == (area.width * ratio) \div 10
            IN  ElementPosition(area.left + (area.width - width) \div 2, top,
                                width, height, 0, element_type)
        level(elem) == IF "level" \in DOMAIN elem THEN elem.level ELSE 1
        RECURSIVE loop(_, _, _)
        loop(i, current_y, acc) ==
            IF i > Len(elements) THEN acc
            ELSE LET elem == elements[i]
                 IN  IF elem.type = "heading" /\ level(elem) = 1
                     THEN loop(i + 1, current_y + Tenths(12) + Tenths(3),
                               Append(acc, centred(9, current_y, Tenths(12), "title")))
                     ELSE IF elem.type = "heading" /\ level(elem) = 2
                     THEN loop(i + 1, current_y + Tenths(8) + Tenths(2),
                               Append(acc, centred(8, current_y, Tenths(8), "subtitle")))
                     ELSE loop(i + 1, current_y + Tenths(6) + Tenths(2),
                               Append(acc, centred(7, current_y, Tenths(6), "content")))
    IN  loop(1, area.top, <<>>)

\* SmartPositionCalculator._calculate_multi_column_positions
CalculateMultiColumnPositions(config, elements, layout_info) ==
    LET columns == layout_info.columns
        area == AvailableArea(config)
        column_gap == Tenths(3)
        column_width == (area.width - (columns - 1) * column_gap) \div columns
        elements_per_column == (Len(elements) + columns - 1) \div columns
        RECURSIVE loop(_, _, _)
        loop(i, current_y, acc) ==
            IF i > Len(elements) \/ (i - 1) \div elements_per_column >= columns THEN acc
            ELSE LET col == (i - 1) \div elements_per_column
                     top == IF (i - 1) % elements_per_column = 0 THEN area.top ELSE current_y
                     height == EstimateElementHeight(elements[i])
                 IN  loop(i + 1, top + height + Px(config.element_spacing),
                          Append(acc, ElementPosition(
                                          area.left + col * (column_width + column_gap),
                                          top, column_width, height, 0, "content")))
    IN  IF elements = <<>> THEN <<>> ELSE loop(1, area.top, <<>>)

\* SmartPositionCalculator._calculate_data_slide_positions
CalculateDataSlidePositions(config, elements) ==
    LET area == AvailableArea(config)
        title_elements == SelectSeq(elements, LAMBDA e : e.type = "heading")
        data_elements == SelectSeq(elements, LAMBDA e : e.type # "heading")
        title_width == (area.width * 9) \div 10
        titles == [k \in 1..Len(title_elements) |->
                      ElementPosition(area.left + (area.width - title_width) \div 2,
                                      area.top + (k - 1) * (Tenths(8) + Tenths(3)),
                                      title_width, Tenths(8), 0, "title")]
        current_y == area.top + Len(title_elements) * (Tenths(8) + Tenths(3))
        data_area_height == area.height - (current_y - area.top) - Tenths(5)
        data_width == IF data_elements = <<>> THEN 0
                      ELSE area.width \div Len(data_elements)
    IN  titles \o [k \in 1..Len(data_elements) |->
                      ElementPosition(area.left + (k - 1) * data_width, current_y,
                                      (data_width * 9) \div 10, data_area_height,
                                      0, "data")]

\* SmartPositionCalculator._calculate_standard_positions
CalculateStandardPositions(config, elements) ==
    LET area == AvailableArea(config)
        width == (area.width * config.max_textbox_width_ratio) \div FloatScale
        RECURSIVE loop(_, _, _)
        loop(i, current_y, acc) ==
            IF i > Len(elements) THEN acc
            ELSE LET height == EstimateElementHeight(elements[i])
                 IN  loop(i + 1, current_y + height + Px(config.element_spacing),
                          Append(acc, ElementPosition(area.left, current_y, width,
                                                      height, 0, "content")))
    IN  loop(1, area.top, <<>>)

\* SmartPositionCalculator.calculate_positions
CalculatePositions(config, elements, layout_info) ==
    ResolveOverlaps(config,
        IF layout_info.type = "title_slide"
        THEN CalculateTitleSlidePositions(config, elements)
        ELSE IF layout_info.type \in {"two_column", "three_column", "multi_column"}
        THEN CalculateMultiColumnPositions(config, elements, layout_info)
        ELSE IF layout_info.type = "data_slide"
        THEN CalculateDataSlidePositions(config, elements)
        ELSE CalculateStandardPositions(config, elements))

(***************************************************************************)
(* SpecLayout: one slide container is analysed and its elements placed,    *)
(* by html2pptx.py or by layout_analyzer.py                                *)
(***************************************************************************)
MaxChildren == 4
ParagraphLen == 40

\* A child Tag of a slide container.  style: the node's own resolved style;
\* flex: the sheet has a rule ".<the node's class attribute>" with
\* display: flex (LayoutAnalyzer._has_flex_display)
Node(tag, text, items, class, style, flex) ==
    [tag |-> tag, text |-> text, items |-> items, class |-> class,
     style |-> style, flex |-> flex]

ChildNodes ==
    LET Paragraph(class, style) ==
            Node("p", [k \in 1..ParagraphLen |-> "x"], <<>>, class, style, FALSE)
    IN
    { Node("h1", <<"T", "i", "t", "l", "e">>, <<>>, <<>>, <<>>, FALSE),
      Paragraph(<<>>, <<>>),
      Paragraph(<<>>, [p \in {"margin-top"} |-> <<"-", "1", "0", "0", "p", "x">>]),
      Paragraph(<<<<"c", "o", "l", "-", "l", "e", "f", "t">>>>, [p \in {"margin"} |-> <<"1", "0", "p", "x", " ", "2", "0", "p", "x">>]),
      Node("ul", <<>>, <<<<"a">>, <<" ">>, <<"b">>>>, <<>>, <<>>, FALSE),
      Node("div", <<"x">>, <<>>, <<<<"r", "o", "w">>>>,
           [p \in {"display"} |-> <<"f", "l", "e", "x">>], TRUE) }

\* A slide style whose padding leaves a content area 200px high
ShortContent == [p \in {"padding"} |-> <<"2", "6", "0", "p", "x">>]

\* Largest number of headings of a data slide
MaxHeadings == 6

\* n headings followed by one paragraph
HeadingsThenData(n) ==
    [k \in 1..(n + 1) |->
        IF k <= n THEN Node("h1", <<"T", "i", "t", "l", "e">>, <<>>, <<>>, <<>>, FALSE)
        ELSE Node("p", [c \in 1..ParagraphLen |-> "x"], <<>>, <<>>, <<>>, FALSE)]

\* A paragraph whose left margin is wider than the slide
WideMarginParagraph ==
    Node("p", [c \in 1..ParagraphLen |-> "x"], <<>>, <<>>,
         [p \in {"margin-left"} |-> <<"1", "3", "0", "0", "p", "x">>], FALSE)

SlideContainers ==
    { [class |-> c.class, style |-> c.style, children |-> children] :
        c \in { [class |-> <<<<"s", "l", "i", "d", "e", "-", "c", "o", "n", "t", "a", "i", "n", "e", "r">>>>, style |-> <<>>],
                [class |-> <<<<"s", "l", "i", "d", "e", "-", "c", "o", "n", "t", "a", "i", "n", "e", "r">>, <<"t", "w", "o", "-", "c", "o", "l", "u", "m", "n">>>>, style |-> <<>>],
                [class |-> <<<<"t", "w", "o", "-", "c", "o", "l", "u", "m", "n">>, <<"d", "a", "t", "a", "-", "g", "r", "i", "d">>>>,
                 style |-> [p \in {"padding"} |-> <<"4", "0", "p", "x", " ", "8", "0", "p", "x">>]],
                [class |-> <<<<"t", "i", "t", "l", "e", "-", "s", "l", "i", "d", "e">>>>, style |-> <<>>],
                [class |-> <<<<"t", "w", "o", "-", "c", "o", "l", "u", "m", "n">>, <<"t", "i", "t", "l", "e", "-", "s", "l", "i", "d", "e">>>>, style |-> <<>>],
                [class |-> <<<<"d", "a", "t", "a", "-", "g", "r", "i", "d">>>>, style |-> <<>>],
                [class |-> <<<<"s", "l", "i", "d", "e", "-", "c", "o", "n", "t", "a", "i", "n", "e", "r">>>>, style |-> ShortContent],
                [class |-> <<<<"s", "l", "i", "d", "e", "-", "c", "o", "n", "t", "a", "i", "n", "e", "r">>, <<"t", "w", "o", "-", "c", "o", "l", "u", "m", "n">>>>, style |-> ShortContent],
                [class |-> <<<<"t", "i", "t", "l", "e", "-", "s", "l", "i", "d", "e">>>>, style |-> ShortContent] },
        children \in UNION { [1..n -> ChildNodes] : n \in 0..MaxChildren } }
    \cup { [class |-> <<<<"d", "a", "t", "a", "-", "g", "r", "i", "d">>>>, style |-> <<>>,
            children |-> HeadingsThenData(n)] : n \in 5..MaxHeadings }
    \cup { [class |-> <<<<"s", "l", "i", "d", "e", "-", "c", "o", "n", "t", "a", "i", "n", "e", "r">>>>,
            style |-> <<>>, children |-> <<WideMarginParagraph>>] }

\* The TemplateConfig fields SmartPositionCalculator reads
TemplateConfigs ==
    { [slide_width_inches |-> SLIDE_WIDTH_INCHES,
       slide_height_inches |-> SLIDE_HEIGHT_INCHES,
       padding_left |-> DEFAULT_PADDING, padding_right |-> DEFAULT_PADDING,
       padding_top |-> DEFAULT_PADDING, padding_bottom |-> DEFAULT_PADDING,
       element_spacing |-> 15,
       max_textbox_width_ratio |-> Tenths(9),
       overlap_detection |-> d,
       overlap_resolution |-> "auto_adjust"] : d \in BOOLEAN }

InitLayout ==
    /\ pc = "layout"
    /\ lay_container \in SlideContainers
    /\ ov_config \in TemplateConfigs
    /\ lay_info = <<>>
    /\ text_boxes = <<>>
    /\ positions = <<>>
    /\ resolved = <<>>
    /\ Idle("layout")

\* layout_info = self.layout_analyzer.analyze_slide_layout(container, all_styles)
AnalyzeSlideLayoutCall ==
    /\ pc = "layout"
    /\ pc' = "analyzed_html2pptx"
    /\ lay_info' = AnalyzeSlideLayout(lay_container)
    /\ UNCHANGED <<lay_container, text_boxes, ov_config, positions, notLayout>>

\* The rest of PPTGenerator._process_slide: calculate_layout_bounds,
\* extract_all_text_elements, _layout_elements
LayoutElementsCall ==
    /\ pc = "analyzed_html2pptx"
    /\ pc' = "placed_html2pptx"
    /\ text_boxes' = LayoutElements(ExtractAllTextElements(lay_container),
                                   CalculateLayoutBounds(lay_container.style),
                                   lay_info)
    /\ UNCHANGED <<lay_container, lay_info, ov_config, positions, notLayout>>

\* AdvancedLayoutAnalyzer.analyze_slide_layout(container, styles)
AdvancedAnalyzeSlideLayoutCall ==
    /\ pc = "layout"
    /\ pc' = "analyzed_layout_analyzer"
    /\ lay_info' = AdvancedAnalyzeSlideLayout(lay_container)
    /\ UNCHANGED <<lay_container, text_boxes, ov_config, positions, notLayout>>

\* SmartPositionCalculator.calculate_positions(elements, layout_info)
CalculatePositionsCall ==
    /\ pc = "analyzed_layout_analyzer"
    /\ pc' = "placed_layout_analyzer"
    /\ positions' = CalculatePositions(ov_config, ExtractAllTextElements(lay_container),
                                       lay_info)
    /\ UNCHANGED <<lay_container, lay_info, text_boxes, ov_config, notLayout>>

NextLayout ==
    \/ AnalyzeSlideLayoutCall
    \/ LayoutElementsCall
    \/ AdvancedAnalyzeSlideLayoutCall
    \/ CalculatePositionsCall

SpecLayout == InitLayout /\ [][NextLayout]_vars

\* C8: a slide lay_container whose class list contains "two-column" is
\* classified with columns = 2 by each analyzer, and its elements (two or
\* more) are then placed in exactly two columns, a left and a right one.
C8_TwoColumnClass ==
    (\E c \in 1..Len(lay_container.class) :
         lay_container.class[c] = <<"t", "w", "o", "-", "c", "o", "l", "u", "m", "n">>) =>
        /\ pc # "layout" => lay_info.columns = 2
        /\ (pc = "placed_html2pptx" /\ Len(text_boxes) >= 2) =>
               Cardinality({ text_boxes[k].left : k \in 1..Len(text_boxes) }) = 2
        /\ (pc = "placed_layout_analyzer" /\ Len(positions) >= 2) =>
               Cardinality({ positions[k].left : k \in 1..Len(positions) }) = 2

\* C9: in the standard layout each box's top is its predecessor's top +
\* height + the spacing constant of the predecessor's kind, so tops strictly
\* increase and no two boxes overlap; an h1 followed by a 40-character
\* paragraph gives exactly 2 boxes, the heading at full content width.
C9_StandardLayoutAdvance ==
    (/\ pc = "placed_html2pptx"
     /\ lay_info.type \notin {"title_slide", "two_column", "multi_column"}) =>
        LET text_elements == ExtractAllTextElements(lay_container)
            content_bounds == CalculateLayoutBounds(lay_container.style)
        IN  /\ \A k \in 2..Len(text_boxes) :
                   /\ text_boxes[k].top =
                          text_boxes[k - 1].top + text_boxes[k - 1].height
                          + GetEnhancedElementSpacing(text_elements[k - 1].type,
                                                      text_elements[k - 1].tag)
                   /\ text_boxes[k].top > text_boxes[k - 1].top
            /\ \A j, k \in 1..Len(text_boxes) :
                   j # k => ~OverlapsWith(text_boxes[j], text_boxes[k])
            /\ (/\ Len(text_elements) = 2
                /\ text_elements[1].tag = "h1"
                /\ text_elements[2].type = "paragraph"
                /\ text_elements[2].style = lay_container.style) =>
                   /\ Len(text_boxes) = 2
                   /\ text_boxes[1].top < text_boxes[2].top
                   /\ text_boxes[1].width = content_bounds.width

(***************************************************************************)
(* Slide background (html2pptx.py)                                         *)
(***************************************************************************)
\* RGBColor(r, g, b); None is the empty tuple
RGBColor(r, g, b) == <<r, g, b>>
None == <<>>

HexChars == <<"0", "1", "2", "3", "4", "5", "6", "7", "8", "9", "a", "b", "c", "d", "e", "f">>
\* [0-9a-fA-F]
IsHexDigit(c) == \E k \in 1..Len(HexChars) : HexChars[k] = LowerChar(c)
\* int(pair, 16) for a pair of hexadecimal digits
HexVal(pair) ==
    LET digit(c) == (CHOOSE k \in 1..Len(HexChars) : HexChars[k] = LowerChar(c)) - 1
    IN  digit(pair[1]) * Len(HexChars) + digit(pair[2])

\* re.findall(r'\d+', s): the maximal runs of digits, in order
RECURSIVE FindAllDigits(_)
FindAllDigits(s) ==
    LET starts == { k \in 1..Len(s) : IsDigit(s[k]) }
        first == CHOOSE k \in starts : \A j \in starts : k <= j
        stops == { k \in first..Len(s) : ~IsDigit(s[k]) }
        stop == IF stops = {} THEN Len(s) + 1
                ELSE CHOOSE k \in stops : \A j \in stops : k <= j
    IN  IF starts = {} THEN <<>>
        ELSE <<SubSeq(s, first, stop - 1)>> \o FindAllDigits(SubSeq(s, stop, Len(s)))

\* s.startswith(prefix)
StartsWith(s, prefix) == Len(s) >= Len(prefix) /\ SubSeq(s, 1, Len(prefix)) = prefix

\* color_map of PPTGenerator._parse_color: the named colours.  Its '#rrggbb'
\* presets are never looked up: a '#' value with six hex digits has returned
\* before.
ColorMap(name) ==
    CASE name = <<"b", "l", "a", "c", "k">> -> RGBColor(0, 0, 0)
      [] name = <<"w", "h", "i", "t", "e">> -> RGBColor(255, 255, 255)
      [] name = <<"r", "e", "d">> -> RGBColor(255, 0, 0)
      [] name = <<"g", "r", "e", "e", "n">> -> RGBColor(0, 128, 0)
      [] name = <<"b", "l", "u", "e">> -> RGBColor(0, 0, 255)
      [] name \in {<<"g", "r", "a", "y">>, <<"g", "r", "e", "y">>} -> RGBColor(128, 128, 128)
      [] name = <<"s", "i", "l", "v", "e", "r">> -> RGBColor(192, 192, 192)
      [] name = <<"m", "a", "r", "o", "o", "n">> -> RGBColor(128, 0, 0)
      [] name = <<"y", "e", "l", "l", "o", "w">> -> RGBColor(255, 255, 0)
      [] name = <<"l", "i", "m", "e">> -> RGBColor(0, 255, 0)
      [] name = <<"a", "q", "u", "a">> -> RGBColor(0, 255, 255)
      [] name = <<"t", "e", "a", "l">> -> RGBColor(0, 128, 128)
      [] name = <<"n", "a", "v", "y">> -> RGBColor(0, 0, 128)
      [] name = <<"f", "u", "c", "h", "s", "i", "a">> -> RGBColor(255, 0, 255)
      [] name = <<"p", "u", "r", "p", "l", "e">> -> RGBColor(128, 0, 128)
      [] name = <<"o", "r", "a", "n", "g", "e">> -> RGBColor(255, 165, 0)
      [] name = <<"p", "i", "n", "k">> -> RGBColor(255, 192, 203)
      [] OTHER -> None

\* PPTGenerator._parse_color.  A '#' value whose digits are not hexadecimal
\* makes int() raise, which the code turns into None; an rgb() component
\* above 255 makes RGBColor raise, likewise.
ParseColor(color_str) ==
    LET hex(hex_color) ==
            IF Len(hex_color) = 6
            THEN IF \A k \in 1..6 : IsHexDigit(hex_color[k])
                 THEN RGBColor(HexVal(SubSeq(hex_color, 1, 2)),
                               HexVal(SubSeq(hex_color, 3, 4)),
                               HexVal(SubSeq(hex_color, 5, 6)))
                 ELSE None
            ELSE ColorMap(Lower(Strip(color_str)))
        stripped(digits) ==
            LET kept == { k \in 1..Len(digits) : digits[k] # "#" }
            IN  IF kept = {} THEN <<>>
                ELSE SubSeq(digits, CHOOSE k \in kept : \A j \in kept : k <= j, Len(digits))
        doubled(digits) ==
            IF Len(digits) = 3
            THEN <<digits[1], digits[1], digits[2], digits[2], digits[3], digits[3]>>
            ELSE digits
        rgb(nums) ==
            IF Len(nums) >= 3
            THEN IF \A k \in 1..3 : DigitsVal(nums[k]) <= 255
                 THEN RGBColor(DigitsVal(nums[1]), DigitsVal(nums[2]), DigitsVal(nums[3]))
                 ELSE None
            ELSE ColorMap(Lower(Strip(color_str)))
        parse(s) ==
            IF StartsWith(s, <<"#">>) THEN hex(doubled(stripped(s)))
            ELSE IF StartsWith(s, <<"r", "g", "b">>) THEN rgb(FindAllDigits(s))
            ELSE ColorMap(s)
    IN  IF color_str = <<>> THEN None ELSE parse(Lower(Strip(color_str)))

\* re.sub(opening + r'[^)]+\)', '#f0f0f0', s), opening being the keyword
\* with its parenthesis: every leftmost match is replaced
RECURSIVE ReSubGradient(_, _)
ReSubGradient(s, opening) ==
    LET matches == { k \in 1..(Len(s) - Len(opening)) :
                        /\ SubSeq(s, k, k + Len(opening) - 1) = opening
                        /\ s[k + Len(opening)] # ")"
                        /\ \E q \in (k + Len(opening) + 1)..Len(s) : s[q] = ")" }
        first == CHOOSE k \in matches : \A j \in matches : k <= j
        closings == { q \in (first + Len(opening) + 1)..Len(s) : s[q] = ")" }
        closing == CHOOSE q \in closings : \A j \in closings : q <= j
    IN  IF matches = {} THEN s
        ELSE SubSeq(s, 1, first - 1) \o <<"#", "f", "0", "f", "0", "f", "0">>
             \o ReSubGradient(SubSeq(s, closing + 1, Len(s)), opening)

\* CSSProcessor._preprocess_css on the text of one declaration value: the
\* two gradient substitutions.  The other substitutions remove at-rules,
\* pseudo rules and unsupported properties, which are not part of a value.
PreprocessCss(css_content) ==
    ReSubGradient(ReSubGradient(css_content, <<"l", "i", "n", "e", "a", "r", "-", "g", "r", "a", "d", "i", "e", "n", "t", "(">>),
                  <<"r", "a", "d", "i", "a", "l", "-", "g", "r", "a", "d", "i", "e", "n", "t", "(">>)

\* A variant of GradientColor that takes the last '#rrggbb' of the value
GradientColor_Last(bg_color) ==
    LET hex_colors == { k \in 1..(Len(bg_color) - 6) :
                           bg_color[k] = "#" /\ \A j \in 1..6 : IsHexDigit(bg_color[k + j]) }
        last == CHOOSE k \in hex_colors : \A j \in hex_colors : k >= j
    IN  CASE hex_colors # {} -> SubSeq(bg_color, last, last + 6)
          [] hex_colors = {} /\ ~Contains(bg_color, <<"r", "g", "b">>) -> <<"#", "f", "8", "f", "9", "f", "a">>

\* PPTGenerator.set_slide_background, the gradient branch: the first
\* '#rrggbb' found in the value, else '#f8f9fa'.  The rgb() search between
\* the two finds nothing in a value without 'rgb', and only such values are
\* evaluated.
GradientColor(bg_color) ==
    LET hex_colors == { k \in 1..(Len(bg_color) - 6) :
                           bg_color[k] = "#" /\ \A j \in 1..6 : IsHexDigit(bg_color[k + j]) }
        first == CHOOSE k \in hex_colors : \A j \in hex_colors : k <= j
    IN  CASE hex_colors # {} -> SubSeq(bg_color, first, first + 6)
          [] hex_colors = {} /\ ~Contains(bg_color, <<"r", "g", "b">>) -> <<"#", "f", "8", "f", "9", "f", "a">>

DEFAULT_BACKGROUND_COLOR == <<"#", "f", "f", "f", "f", "f", "f">>

\* The colour words set_slide_background accepts as a part of a value
BackgroundColorNames ==
    { <<"w", "h", "i", "t", "e">>, <<"b", "l", "a", "c", "k">>, <<"r", "e", "d">>, <<"g", "r", "e", "e", "n">>, <<"b", "l", "u", "e">>, <<"g", "r", "a", "y">>,
      <<"g", "r", "e", "y">>, <<"l", "i", "g", "h", "t", "b", "l", "u", "e">>, <<"l", "i", "g", "h", "t", "g", "r", "a", "y">>, <<"d", "a", "r", "k", "g", "r", "a", "y">>, <<"l", "i", "g", "h", "t", "g", "r", "e", "e", "n">>,
      <<"y", "e", "l", "l", "o", "w">>, <<"o", "r", "a", "n", "g", "e">>, <<"p", "u", "r", "p", "l", "e">>, <<"p", "i", "n", "k">>, <<"b", "r", "o", "w", "n">>, <<"n", "a", "v", "y">>,
      <<"t", "e", "a", "l">> }

\* The background of a page: its fill type ("none": the page keeps the
\* background of its layout; "solid"; "picture") and the fill's colour
Background(fill, rgb) == [fill |-> fill, rgb |-> rgb]

\* PPTGenerator.set_slide_background
SetSlideBackground(config, style) ==
    LET declared(bg_color, background) ==
            IF bg_color # <<>> THEN bg_color
            ELSE IF background # <<>> THEN background
            ELSE DEFAULT_BACKGROUND_COLOR
        simplified(bg_color) ==
            IF Contains(bg_color, <<"l", "i", "n", "e", "a", "r", "-", "g", "r", "a", "d", "i", "e", "n", "t">>)
               \/ Contains(bg_color, <<"r", "a", "d", "i", "a", "l", "-", "g", "r", "a", "d", "i", "e", "n", "t">>)
            THEN GradientColor(bg_color)
            ELSE IF Contains(bg_color, <<"u", "r", "l", "(">>) THEN <<"#", "f", "f", "f", "f", "f", "f">>
            ELSE bg_color
        color_part(parts) ==
            LET colors == { k \in 1..Len(parts) :
                               \/ StartsWith(parts[k], <<"#">>)
                               \/ StartsWith(parts[k], <<"r", "g", "b">>)
                               \/ parts[k] \in BackgroundColorNames }
            IN  IF colors = {} THEN <<"#", "f", "f", "f", "f", "f", "f">>
                ELSE parts[CHOOSE k \in colors : \A j \in colors : k <= j]
        single(bg_color) ==
            IF Contains(bg_color, <<" ">>) THEN color_part(SplitWs(bg_color)) ELSE bg_color
        solid(color) ==
            Background("solid", IF color # None THEN color ELSE RGBColor(255, 255, 255))
    IN  IF ~config.PRESERVE_BACKGROUND THEN Background("none", None)
        ELSE solid(ParseColor(single(simplified(
                 declared(Get(style, "background-color", <<>>),
                          Get(style, "background", <<>>))))))

(***************************************************************************)
(* Pages (html2pptx.py)                                                    *)
(***************************************************************************)
\* The one-character string that stands for the bullet glyph U+2022
BulletGlyph == "(bullet)"

\* PPTGenerator.create_list_shape: the text of the paragraphs of the shape,
\* one per item
CreateListShape(items, list_type) ==
    [i \in 1..Len(items) |->
        (IF list_type = "ul" THEN <<BulletGlyph, " ">> ELSE Fmt(i) \o <<".", " ">>)
        \o items[i]]

\* A shape of a page: a text box with the texts of its paragraphs, or a
\* decoration
Shape(kind, paragraphs) == [kind |-> kind, paragraphs |-> paragraphs]

\* PPTGenerator._create_element_textbox: a list shape for a list element, a
\* text shape otherwise (create_text_shape writes the content to the first
\* paragraph)
CreateElementTextbox(elem) ==
    IF elem.type = "list" THEN Shape(elem.tag, CreateListShape(elem.items, elem.tag))
    ELSE IF elem.type = "quote"
    THEN Shape("text", <<<<"\"">> \o elem.content \o <<"\"">>>>)
    ELSE Shape("text", <<elem.content>>)

\* A page of the Presentation.  container is the index of the slide
\* container the page was built from (kept for the properties only).
Page(container, background, shapes) ==
    [container |-> container, background |-> background, shapes |-> shapes]

\* A variant of AddSlide that puts the new page first
AddSlide_First(pages, page) == <<page>> \o pages

\* A variant of AddSlide that puts the new page in the place of the last one
AddSlide_Overwrite(pages, page) ==
    IF pages = <<>> THEN <<page>> ELSE [pages EXCEPT ![Len(pages)] = page]

\* prs.slides.add_slide: the new page is the last one
AddSlide(pages, page) == Append(pages, page)

\* all_styles of PPTGenerator.convert for a document whose <style> element
\* is one ".slide-container { background: <sheet> }" rule, or is absent
AllStyles(sheet) ==
    IF sheet = <<>> THEN <<>>
    ELSE [selector \in {".slide-container"} |->
             [p \in {"background"} |-> PreprocessCss(sheet[1])]]

\* CSSProcessor.compute_element_style for a slide container: the only rule
\* that matches is the ".slide-container" class rule, and the declarations
\* of the style attribute are applied after it
ContainerStyle(container, styles) ==
    Update(Get(styles, ".slide-container", <<>>), container.style)

\* PPTGenerator._process_slide(prs, container, all_styles, slide_num): the
\* page built from container i of doc with the rule map styles
ProcessSlideStyled(doc, styles, i) ==
    LET shapes(text_elements, boxes) ==
            [k \in 1..Len(boxes) |-> CreateElementTextbox(text_elements[boxes[k].i])]
        laid_out(text_elements, content_bounds, layout_info) ==
            shapes(text_elements, LayoutElements(text_elements, content_bounds, layout_info))
        page(container) ==
            Page(i, SetSlideBackground(doc.config, container.style),
                 laid_out(ExtractAllTextElements(container),
                          CalculateLayoutBounds(container.style),
                          AnalyzeSlideLayout(container)))
    IN  page([doc.containers[i] EXCEPT
                 !.style = ContainerStyle(doc.containers[i], styles)])

\* The page PPTGenerator.convert builds from container i of doc: all_styles
\* is the rule map of the document's <style> element
ProcessSlide(doc, i) == ProcessSlideStyled(doc, AllStyles(doc.sheet), i)

(***************************************************************************)
(* Pages (convert_to_pdf.py)                                               *)
(***************************************************************************)
\* An entry of tag_data
TagData(type, text, number) == [type |-> type, text |-> text, number |-> number]

\* parse_tag_contents_with_style(tag, None) for a container whose children
\* are leaf nodes.  raised: the subscript children_content_tag["src"] has
\* raised KeyError, the tag has no such attribute.
ParseTagContentsWithStyle(children) ==
    LET texts(items) ==
            SelectSeq([k \in 1..Len(items) |-> Strip(items[k])], LAMBDA text : text # <<>>)
        numbered(items) ==
            [idx \in 1..Len(items) |-> TagData("numbered", items[idx], idx)]
        bullet(items) ==
            [idx \in 1..Len(items) |-> TagData("bullet", items[idx], 0)]
        one(type, text) == IF text # <<>> THEN <<TagData(type, text, 0)>> ELSE <<>>
        of(node) ==
            IF node.tag = "img" THEN <<[type |-> "img", src |-> node.src]>>
            ELSE IF node.tag = "h1" THEN one("title", Strip(node.text))
            ELSE IF node.tag = "h2" THEN one("subtitle", Strip(node.text))
            ELSE IF node.tag = "ul" THEN bullet(texts(node.items))
            ELSE IF node.tag = "ol" THEN numbered(texts(node.items))
            ELSE one("text", Strip(node.text))
        RECURSIVE parse(_)
        parse(k) == IF k = 0 THEN <<>> ELSE parse(k - 1) \o of(children[k])
    IN  IF \E k \in 1..Len(children) :
               children[k].tag = "img" /\ "src" \notin DOMAIN children[k]
        THEN [raised |-> TRUE, tag_data |-> <<>>]
        ELSE [raised |-> FALSE, tag_data |-> parse(Len(children))]

\* '\n'.join(texts)
JoinLines(texts) ==
    LET RECURSIVE join(_)
        join(k) == IF k = 1 THEN texts[1] ELSE join(k - 1) \o <<"\n">> \o texts[k]
    IN  join(Len(texts))

\* fill_slide(prs, slide): the pages it adds to the Presentation, none for
\* an empty slide.  slide.container is the index of the container the slide
\* was parsed from.
FillSlide(slide) ==
    LET of_type(type) == SelectSeq(slide.tag_data, LAMBDA item : item.type = type)
        text_of(items) == [k \in 1..Len(items) |-> items[k].text]
        box(items) == IF items = <<>> THEN <<>> ELSE <<Shape("text", <<JoinLines(text_of(items))>>)>>
        bullets(items) ==
            IF items = <<>> THEN <<>>
            ELSE <<Shape("ul", [idx \in 1..Len(items) |->
                                   <<BulletGlyph, " ">> \o items[idx].text])>>
        numbers(items) ==
            IF items = <<>> THEN <<>>
            ELSE <<Shape("ol", [idx \in 1..Len(items) |->
                                   Fmt(items[idx].number) \o <<".", " ">> \o items[idx].text])>>
        content(bullet_box, number_box) ==
            (IF bullet_box = <<>> /\ number_box = <<>> THEN box(of_type("text")) ELSE <<>>)
            \o bullet_box \o number_box
    IN  IF slide.tag_data = <<>> THEN <<>>
        ELSE <<Page(slide.container, Background("solid", RGBColor(248, 249, 250)),
                    <<Shape("top_bar", <<>>), Shape("circle", <<>>)>>
                    \o box(of_type("title")) \o box(of_type("subtitle"))
                    \o content(bullets(of_type("bullet")), numbers(of_type("numbered"))))>>

(***************************************************************************)
(* Spec: a document is converted, by PPTGenerator.convert (html2pptx.py)   *)
(* or by html_to_pptx (convert_to_pdf.py).  The loops of the two calls     *)
(* take one step per slide.                                                *)
(***************************************************************************)
MaxSlides == 2

\* background: linear-gradient(135deg, <first>, <second>)
Gradient(stops) ==
    <<"l", "i", "n", "e", "a", "r", "-", "g", "r", "a", "d", "i", "e", "n", "t", "(", "1", "3", "5", "d", "e", "g", ",", " ">> \o stops[1] \o <<",", " ">> \o stops[2] \o <<")">>

GradientStops ==
    { <<<<"#", "1", "1", "1", "1", "1", "1">>, <<"#", "e", "e", "e", "e", "e", "e">>>>,
      <<<<"r", "e", "d">>, <<"#", "e", "e", "e", "e", "e", "e">>>>,
      <<<<"r", "e", "d">>, <<"b", "l", "u", "e">>>> }

\* The children of a slide container.  An <img> is a node with its
\* attributes as fields: the last container's <img> has no src.  The <p>
\* with margin-top: 700px lies below the content area of the slide.
SlideChildren ==
    LET Leaf(tag, text) == Node(tag, text, <<>>, <<>>, <<>>, FALSE)
        List(tag, items) == Node(tag, <<>>, items, <<>>, <<>>, FALSE)
        Img == Leaf("img", <<>>)
        ImgSrc(src) == [attr \in DOMAIN Img \cup {"src"} |->
                           IF attr = "src" THEN src ELSE Img[attr]]
    IN
    { <<Leaf("h1", <<"T", "i", "t", "l", "e">>), ImgSrc(<<"a", ".", "p", "n", "g">>), Leaf("p", <<"T", "e", "x", "t">>)>>,
      <<List("ol", <<<<"a">>, <<" ">>, <<"b">>>>)>>,
      <<List("ol", <<<<"a">>, <<"b">>>>), List("ol", <<<<"c">>>>)>>,
      <<List("ul", <<<<"a">>, <<"b">>>>)>>,
      <<>>,
      <<Leaf("h1", <<"T", "i", "t", "l", "e">>),
        Node("p", <<"T", "e", "x", "t">>, <<>>, <<>>,
             [p \in {"margin-top"} |-> <<"7", "0", "0", "p", "x">>], FALSE)>>,
      <<Leaf("p", <<"T", "e", "x", "t">>), Leaf("h1", <<"T", "i", "t", "l", "e">>)>>,
      <<Img>> }

\* The .slide-container elements: a style attribute, if there is one, is a
\* gradient background; the containers that have one are empty or hold a
\* title, an image and a text
Containers ==
    { [class |-> <<<<"s", "l", "i", "d", "e", "-", "c", "o", "n", "t", "a", "i", "n", "e", "r">>>>, style |-> <<>>, children |-> children] :
        children \in SlideChildren }
    \cup
    { [class |-> <<<<"s", "l", "i", "d", "e", "-", "c", "o", "n", "t", "a", "i", "n", "e", "r">>>>,
       style |-> [p \in {"background"} |-> Gradient(stops)], children |-> children] :
        stops \in GradientStops,
        children \in { c \in SlideChildren : Len(c) \in {0, 3} } }

Documents ==
    { [converter |-> converter,
       config |-> [PRESERVE_BACKGROUND |-> preserve],
       sheet |-> sheet,
       containers |-> containers] :
        converter \in {"html2pptx", "convert_to_pdf"},
        preserve \in BOOLEAN,
        sheet \in { <<>>, <<Gradient(<<<<"#", "1", "1", "1", "1", "1", "1">>, <<"#", "e", "e", "e", "e", "e", "e">>>>)>> },
        containers \in UNION { [1..n -> Containers] : n \in 0..MaxSlides } }

OutputFile == [name |-> "output_file", kind |-> "pptx"]

Init ==
    /\ document \in Documents
    /\ pc = IF document.converter = "html2pptx" THEN "convert" ELSE "html_to_slides"
    /\ doc_styles = <<>>
    /\ cursor = 1
    /\ slides = <<>>
    /\ prs = <<>>
    /\ files = {}
    /\ returned = <<>>
    /\ Idle("pipeline")

\* PPTGenerator.convert up to its loop: the styles are parsed, and the call
\* raises ValueError for a document without .slide-container
Convert ==
    /\ pc = "convert"
    /\ doc_styles' = AllStyles(document.sheet)
    /\ pc' = IF document.containers = <<>> THEN "raised" ELSE "process_slide"
    /\ UNCHANGED <<document, cursor, slides, prs, files, returned, notPipeline>>

\* One round of the loop of PPTGenerator.convert
ProcessSlideCall ==
    /\ pc = "process_slide"
    /\ cursor <= Len(document.containers)
    /\ prs' = AddSlide(prs, ProcessSlideStyled(document, doc_styles, cursor))
    /\ cursor' = cursor + 1
    /\ UNCHANGED <<pc, document, doc_styles, slides, files, returned, notPipeline>>

\* The end of PPTGenerator.convert: prs.save(output_file); return output_file,
\* the path the caller gave
Save ==
    /\ pc = "process_slide"
    /\ cursor > Len(document.containers)
    /\ files' = files \cup {OutputFile}
    /\ returned' = <<OutputFile.name>>
    /\ pc' = "returned"
    /\ UNCHANGED <<document, doc_styles, cursor, slides, prs, notPipeline>>

\* One round of the loop of html_to_slides.  An exception of html_to_slide
\* leaves html_to_slides and html_to_pptx, which do not catch it.
HtmlToSlide ==
    /\ pc = "html_to_slides"
    /\ cursor <= Len(document.containers)
    /\ LET slide_content == ParseTagContentsWithStyle(document.containers[cursor].children)
       IN  IF slide_content.raised
           THEN pc' = "raised" /\ UNCHANGED <<slides, cursor>>
           ELSE /\ slides' = Append(slides, [container |-> cursor,
                                             tag_data |-> slide_content.tag_data])
                /\ cursor' = cursor + 1
                /\ UNCHANGED pc
    /\ UNCHANGED <<document, doc_styles, prs, files, returned, notPipeline>>

\* html_to_slides returns, slides_to_pptx begins
SlidesToPptx ==
    /\ pc = "html_to_slides"
    /\ cursor > Len(document.containers)
    /\ pc' = "slides_to_pptx"
    /\ cursor' = 1
    /\ UNCHANGED <<document, doc_styles, slides, prs, files, returned, notPipeline>>

\* One round of the loop of slides_to_pptx
FillSlideCall ==
    /\ pc = "slides_to_pptx"
    /\ cursor <= Len(slides)
    /\ LET pages == FillSlide(slides[cursor])
       IN  prs' = IF pages = <<>> THEN prs ELSE AddSlide(prs, pages[1])
    /\ cursor' = cursor + 1
    /\ UNCHANGED <<pc, document, doc_styles, slides, files, returned, notPipeline>>

\* The end of slides_to_pptx and of html_to_pptx: the stream of the saved
\* Presentation is written to output_file and returned
WriteOutput ==
    /\ pc = "slides_to_pptx"
    /\ cursor > Len(slides)
    /\ files' = files \cup {OutputFile}
    /\ returned' = <<prs>>
    /\ pc' = "returned"
    /\ UNCHANGED <<document, doc_styles, cursor, slides, prs, notPipeline>>

Next ==
    \/ Convert
    \/ ProcessSlideCall
    \/ Save
    \/ HtmlToSlide
    \/ SlidesToPptx
    \/ FillSlideCall
    \/ WriteOutput

Spec == Init /\ [][Next]_vars

\* The page each converter builds from container i alone, if it builds one
PageOf(i) ==
    IF document.converter = "html2pptx" THEN <<ProcessSlide(document, i)>>
    ELSE FillSlide([container |-> i,
                    tag_data |-> ParseTagContentsWithStyle(document.containers[i].children).tag_data])

\* C4: the pages of the Presentation are in the order of the slide
\* containers they were built from (the page of container i precedes the
\* page of container j whenever i < j), and every page is the page built
\* from exactly one container of the document.
C4_PagesInContainerOrder ==
    /\ \A a, b \in 1..Len(prs) : a < b => prs[a].container < prs[b].container
    /\ \A a \in 1..Len(prs) :
          /\ prs[a].container \in 1..Len(document.containers)
          /\ <<prs[a]>> = PageOf(prs[a].container)

\* A deck of two pages built from two different containers has been returned
C4_Witness ==
    /\ pc = "returned"
    /\ Len(prs) = 2
    /\ document.containers[1] # document.containers[2]

\* The background declaration of container i: the one of its style
\* attribute, else the one of the stylesheet's .slide-container rule
BackgroundDeclaration(i) ==
    IF "background" \in DOMAIN document.containers[i].style
    THEN document.containers[i].style["background"]
    ELSE IF document.sheet # <<>> THEN document.sheet[1]
    ELSE <<>>

GradientDeclared(i) == Contains(BackgroundDeclaration(i), <<"l", "i", "n", "e", "a", "r", "-", "g", "r", "a", "d", "i", "e", "n", "t", "(">>)

NoRasterAsset == \A file \in files : file.kind # "image"

ListParagraphs(node) ==
    LET items == SelectSeq([k \in 1..Len(node.items) |-> Strip(node.items[k])],
                           LAMBDA item : item # <<>>)
    IN  [k \in 1..Len(items) |->
            (IF node.tag = "ol" THEN Fmt(k) \o <<".", " ">> ELSE <<BulletGlyph, " ">>)
            \o items[k]]

\* C7: on every page, each list shape is the shape of one list of the
\* page's container, and each list of the container with a non-empty item
\* has its shape: for an ordered list with n non-empty items the shape has
\* exactly n paragraphs in item order, the k-th starting with "k. "; for an
\* unordered list every paragraph starts with the bullet glyph.
C7_ListShapeNumbering ==
    \A p \in 1..Len(prs) :
        LET children == document.containers[prs[p].container].children
            lists == { c \in 1..Len(children) :
                          children[c].tag \in {"ol", "ul"}
                          /\ ListParagraphs(children[c]) # <<>> }
            shapes == { s \in 1..Len(prs[p].shapes) : prs[p].shapes[s].kind \in {"ol", "ul"} }
        IN  /\ \A s \in shapes : \E c \in lists :
                  prs[p].shapes[s] = Shape(children[c].tag, ListParagraphs(children[c]))
            /\ \A c \in lists : \E s \in shapes :
                  prs[p].shapes[s] = Shape(children[c].tag, ListParagraphs(children[c]))

\* The containers whose processing fails: html_to_slide raises for them
Failing ==
    { i \in 1..Len(document.containers) :
         /\ document.converter = "convert_to_pdf"
         /\ ParseTagContentsWithStyle(document.containers[i].children).raised }

\* C10: when the processing of a slide container fails, the conversion is
\* not aborted (the call does not end by raising), and the deck it returns
\* has the page of every other container.
C10_SlideFailureIsolated ==
    Failing # {} =>
        /\ pc # "raised"
        /\ pc = "returned" =>
              \A i \in 1..Len(document.containers) \ Failing :
                  PageOf(i) # <<>> => \E k \in 1..Len(prs) : prs[k].container = i

\* The number of text elements of container i of doc that _layout_elements
\* gives no text box: the loop of _layout_standard ends at the first element
\* that has less than MIN_ELEMENT_HEIGHT left
DroppedElements(doc, i) ==
    Len(ExtractAllTextElements(
            [doc.containers[i] EXCEPT
                !.style = ContainerStyle(doc.containers[i], AllStyles(doc.sheet))]))
    - Len(ProcessSlide(doc, i).shapes)

\* doc without the children of its containers whose elements are dropped:
\* each container keeps the shortest prefix of its children that has as many
\* text elements as the page has shapes
WithoutDropped(doc) ==
    LET elements(container, m) ==
            Len(ExtractAllTextElements(
                    [container EXCEPT !.children = SubSeq(container.children, 1, m)]))
        kept(container, n) ==
            CHOOSE m \in 0..Len(container.children) :
                /\ elements(container, m) = n
                /\ \A j \in 0..(m - 1) : elements(container, j) < n
    IN  [doc EXCEPT !.containers =
            [i \in 1..Len(doc.containers) |->
                [doc.containers[i] EXCEPT
                    !.children = SubSeq(doc.containers[i].children, 1,
                                        kept(doc.containers[i],
                                             Len(ProcessSlide(doc, i).shapes)))]]]

\* C11: when PPTGenerator.convert has returned for a document of which the
\* layout dropped an element, what the caller gets (the returned value and
\* the pages of the deck) differs from what it gets for the document without
\* the dropped elements, of which nothing is dropped.
C11_DroppedElementsObservable ==
    (/\ pc = "returned"
     /\ document.converter = "html2pptx"
     /\ \E i \in 1..Len(document.containers) : DroppedElements(document, i) > 0)
    => LET other == WithoutDropped(document)
       IN  ~ /\ \A i \in 1..Len(other.containers) : DroppedElements(other, i) = 0
             /\ returned = <<OutputFile.name>>
             /\ prs = [i \in 1..Len(other.containers) |-> ProcessSlide(other, i)]

\* The containers of the document that have no extractable text
NoText(i) ==
    \A k \in 1..Len(document.containers[i].children) :
        /\ Strip(document.containers[i].children[k].text) = <<>>
        /\ \A j \in 1..Len(document.containers[i].children[k].items) :
              Strip(document.containers[i].children[k].items[j]) = <<>>

\* C12: when the call has returned, the deck has as many pages as the
\* document has slide containers, the k-th built from the k-th container,
\* and the page of a container with no extractable text has no text box.
C12_OnePagePerContainer ==
    pc = "returned" =>
        /\ Len(prs) = Len(document.containers)
        /\ \A k \in 1..Len(prs) :
              /\ prs[k].container = k
              /\ NoText(k) =>
                    \A s \in 1..Len(prs[k].shapes) :
                        prs[k].shapes[s].kind \notin {"text", "ol", "ul"}

(***************************************************************************)
(* SpecSheet: the text of a stylesheet is parsed.  The text is the         *)
(* sequence of its tokens: "@", "{", "}", ":" and ";" are tokens of their  *)
(* own, the other tokens are words without these characters.               *)
(***************************************************************************)
\* re.sub(r'@[^{]+{[^}]*}', '', css): from an "@" that is not followed by
\* "{", through the first "{" after it, to the first "}" after that
RECURSIVE ReSubAtRule(_)
ReSubAtRule(css) ==
    LET first(found) == CHOOSE k \in found : \A j \in found : k <= j
        opening(at) == { k \in (at + 2)..Len(css) : css[k] = "{" }
        closing(open) == { k \in (open + 1)..Len(css) : css[k] = "}" }
        matches == { at \in 1..(Len(css) - 1) :
                        /\ css[at] = "@"
                        /\ css[at + 1] # "{"
                        /\ opening(at) # {}
                        /\ closing(first(opening(at))) # {} }
        cut(at) == SubSeq(css, 1, at - 1)
                   \o ReSubAtRule(SubSeq(css, first(closing(first(opening(at)))) + 1,
                                         Len(css)))
    IN  IF matches = {} THEN css ELSE cut(first(matches))

\* re.sub(word + r'[^}]*}', '', css) for a word that is a sequence of
\* tokens: from the word to the first "}" after it
RECURSIVE ReSubPseudo(_, _)
ReSubPseudo(css, word) ==
    LET first(found) == CHOOSE k \in found : \A j \in found : k <= j
        closing(from) == { k \in from..Len(css) : css[k] = "}" }
        matches == { at \in 1..(Len(css) - Len(word) + 1) :
                        /\ SubSeq(css, at, at + Len(word) - 1) = word
                        /\ closing(at + Len(word)) # {} }
        cut(at) == SubSeq(css, 1, at - 1)
                   \o ReSubPseudo(SubSeq(css, first(closing(at + Len(word))) + 1, Len(css)),
                                  word)
    IN  IF matches = {} THEN css ELSE cut(first(matches))

\* CSSProcessor._preprocess_css on the text of a sheet: the at-rules and the
\* pseudo rules are removed.  The @media substitution finds nothing after
\* the first one; the gradient and unsupported-property substitutions
\* rewrite words that no sheet drawn here contains.
PreprocessCssText(css) ==
    ReSubPseudo(ReSubPseudo(ReSubPseudo(ReSubPseudo(ReSubAtRule(css),
        <<":", ":", "before">>), <<":", ":", "after">>), <<":", "hover">>), <<":", "focus">>)

\* cssutils.parseString, as tolerant as a parser can be: every block
\* "selector { name : value ; ... }" of the text whose selector is one word
\* and whose declarations are all of the form name : value is a style rule;
\* any other block is skipped without an error, and so is text without "{"
RECURSIVE ParseString(_)
ParseString(css) ==
    LET special == {"@", "{", "}", ":", ";"}
        first(found) == CHOOSE k \in found : \A j \in found : k <= j
        opens == { k \in 1..Len(css) : css[k] = "{" }
        closing(open) ==
            LET closes == { k \in (open + 1)..Len(css) : css[k] = "}" }
            IN  IF closes = {} THEN Len(css) + 1 ELSE first(closes)
        declared(pieces) ==
            /\ \A k \in 1..Len(pieces) :
                  /\ Len(pieces[k]) = 3
                  /\ pieces[k][2] = ":"
                  /\ pieces[k][1] \notin special
                  /\ pieces[k][3] \notin special
        style(pieces) == InlineRules(pieces)
        rule(selector, pieces) ==
            IF Len(selector) = 1 /\ selector[1] \notin special /\ declared(pieces)
            THEN <<[selectorText |-> selector[1], style |-> style(pieces)]>>
            ELSE <<>>
        block(open, close) ==
            rule(SubSeq(css, 1, open - 1),
                 SelectSeq(SplitSemicolon(SubSeq(css, open + 1, close - 1)),
                           LAMBDA piece : piece # <<>>))
            \o ParseString(SubSeq(css, close + 1, Len(css)))
    IN  IF opens = {} THEN <<>> ELSE block(first(opens), closing(first(opens)))

\* The texts of the rules of a sheet.  Well formed: p and .box set color.
\* Malformed: a value with a stray "@", a declaration without ":".
WellFormedRules ==
    { <<"p", "{", "color", ":", "red", "}">>,
      <<".box", "{", "color", ":", "blue", ";", "}">>,
      <<".box", "{", "color", ":", "red", "}">> }

MalformedRules ==
    { <<"p", "{", "color", ":", "@", "red", "}">>,
      <<".hl", "{", "color", "blue", "}">> }

\* The text of a sheet: its rules one after the other
RECURSIVE CssContent(_)
CssContent(rules) ==
    IF rules = <<>> THEN <<>> ELSE Head(rules) \o CssContent(Tail(rules))

InitSheet ==
    /\ pc = "sheet"
    /\ css_rules \in UNION { [1..n -> WellFormedRules \cup MalformedRules] : n \in 0..MaxRules }
    /\ all_styles = <<>>
    /\ element = <<>>
    /\ computed = <<>>
    /\ Idle("style")

\* styles = self.css_processor.parse_css_file(css_content) for the text of
\* the sheet.  The parser modelled raises nothing: the except branch, which
\* returns {} for the whole sheet, is not taken.
ParseCssFileText ==
    /\ pc = "sheet"
    /\ pc' = "parsed_html2pptx"
    /\ all_styles' = ParseCssFile(ParseString(PreprocessCssText(CssContent(css_rules))))
    /\ UNCHANGED <<css_rules, element, computed, notStyle>>

\* style_map = parse_css_styles(css_content) for the text of the sheet
ParseCssStylesText ==
    /\ pc = "sheet"
    /\ pc' = "parsed_convert_to_pdf"
    /\ all_styles' = ParseCssStyles(ParseString(CssContent(css_rules)))
    /\ UNCHANGED <<css_rules, element, computed, notStyle>>

NextSheet ==
    \/ ParseCssFileText
    \/ ParseCssStylesText

SpecSheet == InitSheet /\ [][NextSheet]_vars

\* C13: after the sheet is parsed, every well-formed rule of the sheet is
\* in the selector -> properties map: its selector has the properties of
\* the last well-formed rule of the sheet with that selector, whatever
\* malformed rules the sheet has.
C13_MalformedRuleSkipped ==
    pc \in {"parsed_html2pptx", "parsed_convert_to_pdf"} =>
        \A k \in 1..Len(css_rules) :
            (/\ css_rules[k] \in WellFormedRules
             /\ \A j \in (k + 1)..Len(css_rules) :
                   css_rules[j] \in WellFormedRules => css_rules[j][1] # css_rules[k][1])
            => /\ DictHas(all_styles, css_rules[k][1])
               /\ DictGet(all_styles, css_rules[k][1])
                    = [p \in {css_rules[k][3]} |-> css_rules[k][5]]

\* C14: for every value (a str with or without a known unit suffix, a
\* number, another object) each length normaliser returns a number and does
\* not raise, and a str that is no number with or without a unit, or an
\* object that is no str and no number, is normalised to 0.
C14_LengthNeverRaises ==
    \A k \in 1..2 :
        LET unparseable ==
                \/ len_in[k].kind = "other"
                \/ /\ len_in[k].kind = "str"
                   /\ len_in[k].chars \in { <<"a", "u", "t", "o">>, <<"p", "x">>, <<>> }
        IN  /\ css_out[k].done =>
                /\ "raised" \notin DOMAIN css_out[k]
                /\ unparseable => css_out[k].val = 0
            /\ len_out[k].done =>
                /\ "raised" \notin DOMAIN len_out[k]
                /\ unparseable => len_out[k].val = 0
            /\ spacing_out[k].done =>
                /\ "raised" \notin DOMAIN spacing_out[k]
                /\ unparseable => spacing_out[k].val = 0

(***************************************************************************)
(* SpecColor: the colour of one text run and of one page background is     *)
(* set from a style dict, by html2pptx.py and by convert_to_pdf.py         *)
(***************************************************************************)
DEFAULT_TEXT_COLOR == <<"#", "0", "0", "0", "0", "0", "0">>

\* The outcome of a call that assigns a colour: whether it raised, and the
\* RGBColor it assigned (None: it assigned none)
Assigned(rgb) == [done |-> TRUE, raised |-> FALSE, rgb |-> rgb]
RaisedValueError == [done |-> TRUE, raised |-> TRUE, rgb |-> None]
NotCalled == [done |-> FALSE, raised |-> FALSE, rgb |-> None]

\* parse_css_color (convert_to_pdf.py).  int(.., 16) of a pair that is not
\* hexadecimal raises ValueError, and so does RGBColor for a component
\* above 255; nothing catches either.
ParseCssColor(color_str) ==
    LET kept == { k \in 1..Len(color_str) : color_str[k] # "#" }
        hex_color == IF kept = {} THEN <<>>
                     ELSE SubSeq(color_str, CHOOSE k \in kept : \A j \in kept : k <= j,
                                 Len(color_str))
        doubled == IF Len(hex_color) = 3
                   THEN <<hex_color[1], hex_color[1], hex_color[2], hex_color[2],
                          hex_color[3], hex_color[3]>>
                   ELSE hex_color
        nums == FindAllDigits(color_str)
    IN  IF StartsWith(color_str, <<"#">>)
        THEN IF Len(doubled) = 6
             THEN IF \A k \in 1..6 : IsHexDigit(doubled[k])
                  THEN Assigned(RGBColor(HexVal(SubSeq(doubled, 1, 2)),
                                         HexVal(SubSeq(doubled, 3, 4)),
                                         HexVal(SubSeq(doubled, 5, 6))))
                  ELSE RaisedValueError
             ELSE Assigned(None)
        ELSE IF StartsWith(color_str, <<"r", "g", "b">>)
        THEN IF Len(nums) >= 3
             THEN IF \A k \in 1..3 : DigitsVal(nums[k]) <= 255
                  THEN Assigned(RGBColor(DigitsVal(nums[1]), DigitsVal(nums[2]),
                                         DigitsVal(nums[3])))
                  ELSE RaisedValueError
             ELSE Assigned(None)
        ELSE Assigned(None)

\* PPTGenerator.create_text_shape, the font colour of the run: it is
\* assigned when _parse_color returns a colour
CreateTextShapeColor(style) ==
    Assigned(ParseColor(Get(style, "color", DEFAULT_TEXT_COLOR)))

\* fill_slide, the font colour of the title's run: the parsed colour when
\* the style has one (no assignment when the parser returns None), else
\* RGBColor(44, 62, 80)
FillSlideTitleColor(style) ==
    IF "color" \in DOMAIN style THEN ParseCssColor(style["color"])
    ELSE Assigned(RGBColor(44, 62, 80))

ColorDigits == {"0", "f", "g"}
ColorStrings ==
    { <<"#", a, b, c>> : a \in ColorDigits, b \in ColorDigits, c \in ColorDigits }
    \cup { <<"#", "f", "f", "0", "0", "0", "0">>, <<"#", "g", "g", "g", "g", "g", "g">>, <<"#", "1", "2", "3", "4", "5", "g">>, <<"#", "f", "f", "0", "0">>,
           <<"r", "e", "d">>, <<"b", "o", "g", "u", "s">>, <<"r", "g", "b", "(", "1", ",", "2", ",", "3", ")">>, <<"r", "g", "b", "(", "3", "0", "0", ",", "0", ",", "0", ")">>,
           <<"r", "g", "b", "(", "1", ",", "2", ")">> }
ColorStyles == {<<>>} \cup { [p \in {"color"} |-> s] : s \in ColorStrings }

ColorCalls == {"_parse_color", "create_text_shape", "set_slide_background",
               "parse_css_color", "fill_slide"}

InitColor ==
    /\ pc = "color"
    /\ color_style \in ColorStyles
    /\ color_out = [call \in ColorCalls |-> NotCalled]
    /\ Idle("color")

\* PPTGenerator._parse_color(color_style['color'])
ParseColorCall ==
    /\ pc = "color"
    /\ "color" \in DOMAIN color_style
    /\ ~color_out["_parse_color"].done
    /\ color_out' = [color_out EXCEPT
                       !["_parse_color"] = Assigned(ParseColor(color_style["color"]))]
    /\ UNCHANGED <<pc, color_style, notColor>>

\* PPTGenerator.create_text_shape(slide, text, color_style, bounds)
CreateTextShapeCall ==
    /\ pc = "color"
    /\ ~color_out["create_text_shape"].done
    /\ color_out' = [color_out EXCEPT
                       !["create_text_shape"] = CreateTextShapeColor(color_style)]
    /\ UNCHANGED <<pc, color_style, notColor>>

\* PPTGenerator.set_slide_background(slide, style), the style's
\* background-color being the colour of color_style
SetSlideBackgroundCall ==
    /\ pc = "color"
    /\ ~color_out["set_slide_background"].done
    /\ color_out' = [color_out EXCEPT
                       !["set_slide_background"] =
                           Assigned(SetSlideBackground(
                               [PRESERVE_BACKGROUND |-> TRUE],
                               [p \in { q \in {"background-color"} :
                                           "color" \in DOMAIN color_style }
                                  |-> color_style["color"]]).rgb)]
    /\ UNCHANGED <<pc, color_style, notColor>>

\* parse_css_color(color_style['color'])
ParseCssColorCall ==
    /\ pc = "color"
    /\ "color" \in DOMAIN color_style
    /\ ~color_out["parse_css_color"].done
    /\ color_out' = [color_out EXCEPT
                       !["parse_css_color"] = ParseCssColor(color_style["color"])]
    /\ UNCHANGED <<pc, color_style, notColor>>

\* fill_slide(prs, slide) for a slide whose title has color_style
FillSlideTitleCall ==
    /\ pc = "color"
    /\ ~color_out["fill_slide"].done
    /\ color_out' = [color_out EXCEPT
                       !["fill_slide"] = FillSlideTitleColor(color_style)]
    /\ UNCHANGED <<pc, color_style, notColor>>

NextColor ==
    \/ ParseColorCall
    \/ CreateTextShapeCall
    \/ SetSlideBackgroundCall
    \/ ParseCssColorCall
    \/ FillSlideTitleCall

SpecColor == InitColor /\ [][NextColor]_vars

\* A colour value that names no colour: '#' followed by something that is
\* not three or six hexadecimal digits, or a word that is no colour name
Unresolvable(color_str) ==
    \/ /\ StartsWith(color_str, <<"#">>)
       /\ \/ Len(color_str) \notin {4, 7}
          \/ \E k \in 2..Len(color_str) : ~IsHexDigit(color_str[k])
    \/ color_str = <<"b", "o", "g", "u", "s">>

\* C15: for a colour value that names no colour, no call that parses it or
\* sets a colour from it raises, the text run gets the default text colour
\* of its converter and the page background the default background colour.
C15_UnresolvableColorDefault ==
    ("color" \in DOMAIN color_style /\ Unresolvable(color_style["color"])) =>
        /\ \A call \in ColorCalls : ~color_out[call].raised
        /\ color_out["create_text_shape"].done =>
               color_out["create_text_shape"].rgb = ParseColor(DEFAULT_TEXT_COLOR)
        /\ color_out["fill_slide"].done =>
               color_out["fill_slide"].rgb = RGBColor(44, 62, 80)
        /\ color_out["set_slide_background"].done =>
               color_out["set_slide_background"].rgb = ParseColor(DEFAULT_BACKGROUND_COLOR)

\* C16: every page of the Presentation has a background fill, under every
\* configuration and for every background declaration; a page built from a
\* container without a background declaration is filled with the default
\* background colour of its converter.
C16_EveryPageHasBackground ==
    \A k \in 1..Len(prs) :
        /\ prs[k].background.fill # "none"
        /\ prs[k].background.rgb # None
        /\ BackgroundDeclaration(prs[k].container) = <<>> =>
              prs[k].background.rgb =
                  IF document.converter = "html2pptx" THEN ParseColor(DEFAULT_BACKGROUND_COLOR)
                  ELSE RGBColor(248, 249, 250)

\* The style a resolver computes for the node from a sheet with the rules
\* in the given order
ResolveWith(by, el, rules) ==
    CASE by = "compute_element_style" -> ComputeElementStyle(el, ParseCssFile(rules))
      [] by = "_get_element_style" -> TextGetElementStyle(el, ParseCssFile(rules))
      [] by = "get_element_style" -> GetElementStyle(el, ParseCssStyles(rules))

\* C17: the resolved style of the node is the same for every permutation
\* of the rules of the stylesheet, two rules with one selector and a ".c"
\* and a "tag.c" rule that set the same property included.
C17_RuleOrderInsignificant ==
    (pc = "resolved") =>
        \A order \in Permutations(1..Len(css_rules)) :
            ResolveWith(computed[1].by, element,
                        [k \in 1..Len(css_rules) |-> css_rules[order[k]]])
                = computed[1].style

\* The index of the first child of container i whose text is in the shape:
\* its text, or one of its list items, is part of a paragraph of the shape
SourceIndex(i, shape) ==
    LET children == document.containers[i].children
        within(text) ==
            /\ Strip(text) # <<>>
            /\ \E q \in 1..Len(shape.paragraphs) : Contains(shape.paragraphs[q], Strip(text))
        sources == { k \in 1..Len(children) :
                        \/ within(children[k].text)
                        \/ \E j \in 1..Len(children[k].items) : within(children[k].items[j]) }
    IN  IF sources = {} THEN 0 ELSE CHOOSE k \in sources : \A j \in sources : k <= j

\* C18: the shapes with text of a page are in the document order of the
\* elements they were made from: a shape made from an earlier child of the
\* container precedes a shape made from a later one.  (No container drawn
\* has a multi-column layout.)
C18_ShapesInDocumentOrder ==
    \A k \in 1..Len(prs) :
        \A x, y \in 1..Len(prs[k].shapes) :
            (/\ x < y
             /\ SourceIndex(prs[k].container, prs[k].shapes[x]) > 0
             /\ SourceIndex(prs[k].container, prs[k].shapes[y]) > 0)
            => SourceIndex(prs[k].container, prs[k].shapes[x])
                  <= SourceIndex(prs[k].container, prs[k].shapes[y])

(***************************************************************************)
(* SpecExtract: the text elements of one slide container are extracted     *)
(* (html2pptx.py).  The container is a tree: a Tag has a name and its      *)
(* contents, which are Tags and NavigableStrings.                          *)
(***************************************************************************)
NavigableString(chars) == [kind |-> "string", chars |-> chars]
Tag(name, contents) == [kind |-> "tag", name |-> name, contents |-> contents]

\* element.get_text(): the strings of the tree below the element, joined
RECURSIVE GetText(_)
GetText(el) ==
    IF el.kind = "string" THEN el.chars
    ELSE LET RECURSIVE joined(_)
             joined(k) == IF k = 0 THEN <<>>
                          ELSE joined(k - 1) \o GetText(el.contents[k])
         IN  joined(Len(el.contents))

\* ' '.join(texts)
JoinSpaces(texts) ==
    LET RECURSIVE join(_)
        join(k) == IF k = 0 THEN <<>>
                   ELSE IF k = 1 THEN texts[1]
                   ELSE join(k - 1) \o <<" ">> \o texts[k]
    IN  join(Len(texts))

\* TextProcessor._get_direct_text_content
GetDirectTextContent(el) ==
    LET strings == SelectSeq(el.contents, LAMBDA content : content.kind = "string")
        texts == SelectSeq([k \in 1..Len(strings) |-> Strip(strings[k].chars)],
                           LAMBDA text : text # <<>>)
    IN  JoinSpaces(texts)

\* A text element; content is the text, items the texts of a list's items.
\* The element's style is left out.
TextElement(type, tag, content, items) ==
    [type |-> type, tag |-> tag, content |-> content, items |-> items]

\* Mutant: an inline element is promoted whatever its parent is
RECURSIVE ExtractStructured_PromoteAlways(_, _)
ExtractStructured_PromoteAlways(el, parent_tag) ==
    LET tag_name == el.name
        full_text == Strip(GetText(el))
        tags == SelectSeq(el.contents, LAMBDA child : child.kind = "tag")
        one(type) == IF full_text # <<>>
                     THEN <<TextElement(type, tag_name, full_text, <<>>)>> ELSE <<>>
        lis == SelectSeq(tags, LAMBDA child : child.name = "li")
        list_items == SelectSeq([k \in 1..Len(lis) |-> Strip(GetText(lis[k]))],
                                LAMBDA li_text : li_text # <<>>)
        direct_text == GetDirectTextContent(el)
        has_block_children ==
            \E k \in 1..Len(tags) :
                tags[k].name \in HeadingTags \cup {"p", "ul", "ol", "blockquote", "pre", "div"}
        RECURSIVE children(_)
        children(k) == IF k = 0 THEN <<>>
                       ELSE children(k - 1) \o ExtractStructured_PromoteAlways(tags[k], tag_name)
    IN  IF tag_name \in HeadingTags THEN one("heading")
        ELSE IF tag_name = "p" THEN one("paragraph")
        ELSE IF tag_name \in {"ul", "ol"}
        THEN IF list_items # <<>>
             THEN <<TextElement("list", tag_name, <<>>, list_items)>> ELSE <<>>
        ELSE IF tag_name = "blockquote" THEN one("quote")
        ELSE IF tag_name = "pre" THEN one("code")
        ELSE IF tag_name \in {"div", "section", "article"}
        THEN IF direct_text # <<>> /\ ~has_block_children
             THEN <<TextElement("text_block", tag_name, direct_text, <<>>)>>
             ELSE children(Len(tags))
        ELSE IF tag_name \in {"span", "strong", "em", "b", "i"}
        THEN one("inline_text")
        ELSE children(Len(tags))

\* _extract_structured of TextProcessor.extract_all_text_elements: the text
\* elements it appends for the element, parent_tag being the name of the
\* element's parent
RECURSIVE ExtractStructured(_, _)
ExtractStructured(el, parent_tag) ==
    LET tag_name == el.name
        full_text == Strip(GetText(el))
        tags == SelectSeq(el.contents, LAMBDA child : child.kind = "tag")
        one(type) == IF full_text # <<>>
                     THEN <<TextElement(type, tag_name, full_text, <<>>)>> ELSE <<>>
        lis == SelectSeq(tags, LAMBDA child : child.name = "li")
        list_items == SelectSeq([k \in 1..Len(lis) |-> Strip(GetText(lis[k]))],
                                LAMBDA li_text : li_text # <<>>)
        direct_text == GetDirectTextContent(el)
        has_block_children ==
            \E k \in 1..Len(tags) :
                tags[k].name \in HeadingTags \cup {"p", "ul", "ol", "blockquote", "pre", "div"}
        RECURSIVE children(_)
        children(k) == IF k = 0 THEN <<>>
                       ELSE children(k - 1) \o ExtractStructured(tags[k], tag_name)
    IN  IF tag_name \in HeadingTags THEN one("heading")
        ELSE IF tag_name = "p" THEN one("paragraph")
        ELSE IF tag_name \in {"ul", "ol"}
        THEN IF list_items # <<>>
             THEN <<TextElement("list", tag_name, <<>>, list_items)>> ELSE <<>>
        ELSE IF tag_name = "blockquote" THEN one("quote")
        ELSE IF tag_name = "pre" THEN one("code")
        ELSE IF tag_name \in {"div", "section", "article"}
        THEN IF direct_text # <<>> /\ ~has_block_children
             THEN <<TextElement("text_block", tag_name, direct_text, <<>>)>>
             ELSE children(Len(tags))
        ELSE IF tag_name \in {"span", "strong", "em", "b", "i"}
        THEN IF parent_tag \notin HeadingTags \cup {"p", "li", "blockquote"}
             THEN one("inline_text") ELSE <<>>
        ELSE children(Len(tags))

MaxContents == 2

\* What a slide container may hold
ContainerContents ==
    LET S(text) == NavigableString(text)
    IN  { S(<<"x">>), S(<<" ">>),
          Tag("h1", <<S(<<"T", "i", "t", "l", "e">>)>>),
          Tag("p", <<S(<<"y">>)>>),
          Tag("p", <<S(<<"y", " ">>), Tag("strong", <<S(<<"z">>)>>)>>),
          Tag("ul", <<Tag("li", <<S(<<"y">>)>>), Tag("li", <<S(<<" ">>)>>)>>),
          Tag("span", <<S(<<"y">>)>>),
          Tag("div", <<Tag("p", <<S(<<"y">>)>>)>>),
          Tag("div", <<S(<<"y">>), Tag("p", <<S(<<"z">>)>>)>>),
          Tag("div", <<S(<<"y">>), Tag("span", <<S(<<"z">>)>>)>>),
          Tag("table", <<Tag("td", <<S(<<"y">>)>>)>>),
          Tag("li", <<S(<<"y">>), Tag("span", <<S(<<"z">>)>>)>>) }

InitExtract ==
    /\ pc = "extract"
    /\ dom \in { Tag("div", contents) :
                   contents \in UNION { [1..n -> ContainerContents] : n \in 0..MaxContents } }
    /\ extracted = <<>>
    /\ Idle("extract")

\* text_elements = self.text_processor.extract_all_text_elements(container, all_styles)
ExtractAllTextElementsCall ==
    /\ pc = "extract"
    /\ pc' = "extracted"
    /\ extracted' = <<ExtractStructured(dom, "body")>>
    /\ UNCHANGED <<dom, notExtract>>

NextExtract ==
    ExtractAllTextElementsCall

SpecExtract == InitExtract /\ [][NextExtract]_vars

\* The strings of the tree below the element that are not whitespace
RECURSIVE TextNodes(_)
TextNodes(el) ==
    IF el.kind = "string"
    THEN IF Strip(el.chars) # <<>> THEN {Strip(el.chars)} ELSE {}
    ELSE UNION { TextNodes(el.contents[k]) : k \in 1..Len(el.contents) }

\* C19: once the text elements of the container are extracted, every string
\* of its tree that is not whitespace is part of the content of a text
\* element, or of an item of a list element.
C19_NoTextLost ==
    (pc = "extracted") =>
        \A text \in TextNodes(dom) :
            \E k \in 1..Len(extracted[1]) :
                \/ Contains(extracted[1][k].content, text)
                \/ \E j \in 1..Len(extracted[1][k].items) :
                       Contains(extracted[1][k].items[j], text)

\* C20: no step writes the rule map after PPTGenerator.convert has built it,
\* and no step changes a page that is in the Presentation: the pages of the
\* Presentation before a step are, unchanged and in their places, its first
\* pages after the step.
C20_CommittedPagesFrame ==
    [][/\ pc # "convert" => doc_styles' = doc_styles
       /\ Len(prs') >= Len(prs)
       /\ \A k \in 1..Len(prs) : prs'[k] = prs[k]]_vars

\* PPTGenerator.convert has returned a deck of two different pages, built
\* with a rule map that has a rule: the second page was added after the
\* first was committed
C20_Witness ==
    /\ pc = "returned"
    /\ document.converter = "html2pptx"
    /\ doc_styles # <<>>
    /\ Len(prs) = 2
    /\ prs[1].shapes # prs[2].shapes
    /\ prs[1] = ProcessSlideStyled(document, doc_styles, 1)

\* Box k of boxes, placed in one of ncols columns that all begin at start,
\* is in a column whose running offset is the smallest: no column is still
\* empty unless k is at start, and k's top is at most the offset below the
\* last earlier box of every other column.  first: the first box that
\* is in a column; spacing(j): the spacing left below box j
InShortestColumn(boxes, k, first, ncols, start, spacing(_)) ==
    LET earlier == first..(k - 1)
        used == { boxes[j].left : j \in earlier }
        last(l) == CHOOSE j \in earlier :
                       boxes[j].left = l /\ \A q \in earlier : boxes[q].left = l => q <= j
    IN  /\ Cardinality(used) < ncols => boxes[k].top <= start
        /\ \A l \in used :
               boxes[k].top <= boxes[last(l)].top + boxes[last(l)].height + spacing(last(l))

\* C21: in a two-column or multi-column layout every box other than a
\* full-width leading title is placed in a column whose running vertical
\* offset is, when the box is placed, the smallest of all columns.
C21_ShortestColumnFirst ==
    LET elements == ExtractAllTextElements(lay_container)
        content_bounds == CalculateLayoutBounds(lay_container.style)
        titled == elements # <<>> /\ elements[1].tag \in {"h1", "h2"}
        spacing(j) == GetEnhancedElementSpacing(elements[text_boxes[j].i].type,
                                                elements[text_boxes[j].i].tag)
        num_cols == IF lay_info.type = "two_column" THEN 2
                    ELSE IF Len(elements) <= 3 THEN 2
                    ELSE IF Len(elements) <= 6 THEN 3 ELSE 4
        start == IF titled THEN text_boxes[1].top + text_boxes[1].height + spacing(1)
                 ELSE content_bounds.top
    IN  /\ (pc = "placed_html2pptx" /\ lay_info.type \in {"two_column", "multi_column"}) =>
               \A k \in (IF titled THEN 2 ELSE 1)..Len(text_boxes) :
                   InShortestColumn(text_boxes, k, IF titled THEN 2 ELSE 1,
                                    num_cols, start, spacing)
        /\ (/\ pc = "placed_layout_analyzer"
            /\ ~ov_config.overlap_detection
            /\ lay_info.type \in {"two_column", "three_column", "multi_column"}) =>
               \A k \in 1..Len(positions) :
                   InShortestColumn(positions, k, 1, lay_info.columns,
                                    AvailableArea(ov_config).top,
                                    LAMBDA j : Px(ov_config.element_spacing))

\* C22: whatever the layout kind, no placed box extends below the bottom of
\* the content area, and the boxes placed are those of a leading run of the
\* slide's elements (an element that does not fit is clipped, or it and all
\* later elements are dropped).
C22_NoBoxBelowContentBottom ==
    LET content_bounds == CalculateLayoutBounds(lay_container.style)
        bottom == content_bounds.top + content_bounds.height
    IN  pc = "placed_html2pptx" =>
            /\ \A k \in 1..Len(text_boxes) :
                   text_boxes[k].top + text_boxes[k].height <= bottom
            /\ \A k \in 1..Len(text_boxes) : text_boxes[k].i = k

\* C23: the layout kind is that of the first matching rule in the order
\* class-name keyword, single h1 with few children, two or more flex
\* children, three or more stat elements, default; in particular a
\* container one of whose classes contains "title" is classified as a title
\* slide by each analyzer, whatever its other classes, children and styles.
C23_FirstMatchingRule ==
    LET classes == lay_container.class
        children == lay_container.children
        has(keywords) == \E c \in 1..Len(classes) :
                             \E w \in keywords : Contains(Lower(classes[c]), w)
        count(P(_)) == Cardinality({ k \in 1..Len(children) : P(children[k]) })
        keyword_class ==
            has({<<"t", "i", "t", "l", "e">>, <<"t", "w", "o", "-", "c", "o", "l", "u", "m", "n">>, <<"d", "u", "a", "l">>, <<"t", "h", "r", "e", "e", "-", "c", "o", "l", "u", "m", "n">>, <<"t", "r", "i", "p", "l", "e">>,
                 <<"d", "a", "t", "a">>, <<"c", "h", "a", "r", "t">>, <<"q", "u", "o", "t", "e">>, <<"t", "e", "s", "t", "i", "m", "o", "n", "i", "a", "l">>, <<"c", "o", "n", "c", "l", "u", "s", "i", "o", "n">>,
                 <<"s", "u", "m", "m", "a", "r", "y">>, <<"t", "h", "a", "n", "k">>})
        by_shape ==
            IF count(LAMBDA child : child.tag = "h1") = 1
               /\ count(LAMBDA child : child.tag = "h2") <= 2 /\ Len(children) <= 4
            THEN "title_slide"
            ELSE IF count(LAMBDA child : HasFlexLayout(child.style)) >= 2 THEN "multi_column"
            ELSE "content_slide"
    IN  /\ (pc \in {"analyzed_html2pptx", "analyzed_layout_analyzer"} /\ has({<<"t", "i", "t", "l", "e">>})) =>
               lay_info.type = "title_slide"
        /\ (pc = "analyzed_layout_analyzer" /\ ~keyword_class) => lay_info.type = by_shape

\* C24: a slide classified multi-column has k >= 2 direct children with
\* flex display (one flex child is not enough), the reported column count
\* is k, and the position calculator places the elements in exactly k
\* columns (in as many columns as there are elements when these are fewer).
C24_FlexChildrenAreColumns ==
    LET children == lay_container.children
        elements == ExtractAllTextElements(lay_container)
        k == Cardinality({ c \in 1..Len(children) : HasFlexLayout(children[c].style) })
        titled == elements # <<>> /\ elements[1].tag \in {"h1", "h2"}
        in_columns == (IF titled THEN 2 ELSE 1)..Len(text_boxes)
    IN  (pc # "layout" /\ lay_info.type = "multi_column") =>
            /\ k >= 2
            /\ lay_info.columns = k
            /\ pc = "placed_html2pptx" =>
                   Cardinality({ text_boxes[b].left : b \in in_columns })
                       = Min(k, Cardinality(in_columns))
            /\ pc = "placed_layout_analyzer" =>
                   Cardinality({ positions[b].left : b \in 1..Len(positions) })
                       = Min(k, Len(positions))

\* C25: calculate_positions returns one box per input element, and the k-th
\* box is that of the k-th element: it has the height estimated for that
\* element (multi-column and standard layouts) or the type tag the layout
\* gives to an element of its kind (title and data slides).
C25_OneBoxPerElementInOrder ==
    LET elements == ExtractAllTextElements(lay_container)
        level(elem) == IF "level" \in DOMAIN elem THEN elem.level ELSE 1
        box_of(k) ==
            IF lay_info.type = "title_slide"
            THEN positions[k].element_type =
                     (IF elements[k].type = "heading" /\ level(elements[k]) = 1 THEN "title"
                      ELSE IF elements[k].type = "heading" /\ level(elements[k]) = 2
                      THEN "subtitle" ELSE "content")
            ELSE IF lay_info.type = "data_slide"
            THEN positions[k].element_type =
                     (IF elements[k].type = "heading" THEN "title" ELSE "data")
            ELSE positions[k].height = EstimateElementHeight(elements[k])
    IN  pc = "placed_layout_analyzer" =>
            /\ Len(positions) = Len(elements)
            /\ \A k \in 1..Len(positions) : box_of(k)

\* The unit of a length "<digits><unit>" and 75 times the number of px it
\* stands for under the ratios 1 rem = 1 em = 16 px, 1 px = 0.75 pt,
\* 1 vw = 12.8 px, 1 vh = 7.2 px, 1% = 0.16 px; 0 - 1 for any other value
UnitRatioPx(v) ==
    LET s == v.chars
        unit == IF EndsWith(s, <<"r", "e", "m">>) THEN 3
                ELSE IF \E u \in {<<"p", "x">>, <<"p", "t">>, <<"e", "m">>,
                                  <<"v", "w">>, <<"v", "h">>} : EndsWith(s, u) THEN 2
                ELSE IF EndsWith(s, <<"%">>) THEN 1 ELSE 0
        digits == DropLast(s, unit)
        ratio == CASE EndsWith(s, <<"p", "x">>) -> 75
                   [] EndsWith(s, <<"p", "t">>) -> 100
                   [] EndsWith(s, <<"e", "m">>) -> 75 * REM_PX
                   [] EndsWith(s, <<"v", "w">>) -> (75 * PPT_WIDTH_PX) \div 100
                   [] EndsWith(s, <<"v", "h">>) -> (75 * PPT_HEIGHT_PX) \div 100
                   [] OTHER -> (75 * REM_PX) \div 100
    IN  IF v.kind = "str" /\ unit > 0 /\ digits # <<>> /\ AllDigits(digits)
        THEN DigitsVal(digits) * ratio
        ELSE 0 - 1

\* C26: every length converter uses the same unit ratios: two lengths that
\* stand for the same number of px ("12pt" and "16px", "50vw" and "640px",
\* "50vh" and "360px", "100%" and "16px", ...) are normalised to the same
\* value by css_value_to_pt and to the same value by _parse_length.
C26_SameUnitRatios ==
    (UnitRatioPx(len_in[1]) >= 0 /\ UnitRatioPx(len_in[1]) = UnitRatioPx(len_in[2])) =>
        /\ (css_out[1].done /\ css_out[2].done) => css_out[1].val = css_out[2].val
        /\ (len_out[1].done /\ len_out[2].done) => len_out[1].val = len_out[2].val

\* C27: the Overlap Resolver returns as many boxes as it was given, in the
\* same order, and changes nothing but tops: left, width, height, z-order
\* and type tag of every box are kept; a shifted box has its top at the
\* top + height + gap of an earlier box of the result; no top decreases;
\* the first box is not moved.
C27_ResolverFrame ==
    \A r \in 1..Len(resolved) :
        LET given == IF r = 1 THEN positions ELSE resolved[r - 1]
            out == resolved[r]
        IN  /\ Len(out) = Len(given)
            /\ \A k \in 1..Len(out) :
                   /\ out[k] = [given[k] EXCEPT !.top = out[k].top]
                   /\ out[k].top >= given[k].top
                   /\ out[k].top # given[k].top =>
                          \E i \in 1..(k - 1) :
                              out[k].top = out[i].top + out[i].height + OverlapGap
            /\ out # <<>> => out[1] = given[1]

\* The resolver has shifted the second and the third of three boxes and
\* left the first in place
C27_Witness ==
    /\ AutoAdjust
    /\ Len(resolved) >= 1
    /\ Len(positions) = 3
    /\ resolved[1][1] = positions[1]
    /\ resolved[1][2].top > positions[2].top
    /\ resolved[1][3].top > positions[3].top

InlineTags == {"span", "strong", "em", "b", "i"}

\* The number of inline Tags of the tree below the element (itself
\* included) whose parent is not a block element; parent_tag is the name
\* of the element's parent
RECURSIVE InlinesOutsideBlocks(_, _)
InlinesOutsideBlocks(el, parent_tag) ==
    LET RECURSIVE below(_)
        below(k) == IF k = 0 THEN 0
                    ELSE below(k - 1) + InlinesOutsideBlocks(el.contents[k], el.name)
    IN  IF el.kind = "string" THEN 0
        ELSE below(Len(el.contents))
             + (IF el.name \in InlineTags
                   /\ parent_tag \notin HeadingTags \cup {"p", "li", "blockquote"}
                THEN 1 ELSE 0)

\* How often the character occurs in the strings of the tree below the element
RECURSIVE TimesInTree(_, _)
TimesInTree(c, el) ==
    LET RECURSIVE below(_)
        below(k) == IF k = 0 THEN 0 ELSE below(k - 1) + TimesInTree(c, el.contents[k])
    IN  IF el.kind = "string"
        THEN Cardinality({ k \in 1..Len(el.chars) : el.chars[k] = c })
        ELSE below(Len(el.contents))

\* How often the character occurs in the contents and list items of the
\* text elements
TimesInElements(c, text_elements) ==
    LET in_text(s) == Cardinality({ k \in 1..Len(s) : s[k] = c })
        RECURSIVE in_items(_, _)
        in_items(items, k) == IF k = 0 THEN 0
                              ELSE in_items(items, k - 1) + in_text(items[k])
        RECURSIVE in_elements(_)
        in_elements(k) ==
            IF k = 0 THEN 0
            ELSE in_elements(k - 1) + in_text(text_elements[k].content)
                 + in_items(text_elements[k].items, Len(text_elements[k].items))
    IN  in_elements(Len(text_elements))

\* C28: an inline element (span, strong, em, b, i) becomes an inline_text
\* element only when its parent is not a block element (p, h1-h6, li,
\* blockquote), and no string of the tree is contained in more than one
\* extracted text element: every character of the strings occurs in the
\* text elements at most as often as in the tree.
C28_InlinePromotedOutsideBlocks ==
    pc = "extracted" =>
        /\ Len(SelectSeq(extracted[1], LAMBDA e : e.type = "inline_text"))
               <= InlinesOutsideBlocks(dom, "body")
        /\ \A c \in {"x", "y", "z", "T"} :
               TimesInElements(c, extracted[1]) <= TimesInTree(c, dom)

\* The container holds a span under an li, which is not promoted, and a span
\* of its own, which is the one inline_text element
C28_Witness ==
    /\ pc = "extracted"
    /\ \E k \in 1..Len(dom.contents) :
           dom.contents[k].kind = "tag" /\ dom.contents[k].name = "li"
    /\ \E k \in 1..Len(dom.contents) :
           dom.contents[k].kind = "tag" /\ dom.contents[k].name = "span"
    /\ Len(SelectSeq(extracted[1], LAMBDA e : e.type = "inline_text")) = 1

(***************************************************************************)
(* SpecHeight: the heights of two text elements are computed by each       *)
(* height function                                                         *)
(***************************************************************************)
\* Largest content length and largest number of list items of the inputs
MaxChars == 900
MaxItems == 26

\* A text element of extract_all_text_elements with a content of n
\* characters (of n lines for a code element) or with n list items
SizedElement(type, tag, n) ==
    [type |-> type, tag |-> tag,
     content |-> IF type = "list" THEN <<>>
                 ELSE IF type = "code"
                 THEN [k \in 1..(2 * n - 1) |-> IF k % 2 = 1 THEN "x" ELSE "\n"]
                 ELSE [k \in 1..n |-> "x"],
     items |-> IF type = "list" THEN [k \in 1..n |-> <<"x">>] ELSE <<>>]

HeightElements ==
    { SizedElement("paragraph", "p", n) : n \in {0, 50, 51, 150, 151, 300, 301, MaxChars} }
    \cup { SizedElement("text_block", "div", n) : n \in {1, 301} }
    \cup { SizedElement("quote", "blockquote", n) : n \in {1, 50, 350, MaxChars} }
    \cup { SizedElement("heading", tag, 5) : tag \in {"h1", "h2", "h3"} }
    \cup { SizedElement("list", "ul", n) : n \in {1, 3, 9, MaxItems} }
    \cup { SizedElement("code", "pre", n) : n \in {1, 3, 8} }
    \cup { SizedElement("inline_text", "span", n) : n \in {1, 50} }

InitHeight ==
    /\ pc = "height"
    /\ height_in \in [1..2 -> HeightElements]
    /\ height_out = [by \in {"_calculate_element_height", "_estimate_element_height"} |->
                        [k \in 1..2 |-> Pending]]
    /\ Idle("height")

\* PPTGenerator._calculate_element_height(height_in[k])
CalculateElementHeightCall(k) ==
    /\ pc = "height"
    /\ ~height_out["_calculate_element_height"][k].done
    /\ height_out' = [height_out EXCEPT !["_calculate_element_height"][k] =
                         Done(CalculateElementHeight(height_in[k]))]
    /\ UNCHANGED <<pc, height_in, notHeight>>

\* SmartPositionCalculator._estimate_element_height(height_in[k])
EstimateElementHeightCall(k) ==
    /\ pc = "height"
    /\ ~height_out["_estimate_element_height"][k].done
    /\ height_out' = [height_out EXCEPT !["_estimate_element_height"][k] =
                         Done(EstimateElementHeight(height_in[k]))]
    /\ UNCHANGED <<pc, height_in, notHeight>>

NextHeight ==
    \/ \E k \in 1..2 : CalculateElementHeightCall(k)
    \/ \E k \in 1..2 : EstimateElementHeightCall(k)

SpecHeight == InitHeight /\ [][NextHeight]_vars

\* The content length of a text element: its number of list items, or of
\* characters (a code element of more lines has more characters)
ContentLength(elem) == IF elem.type = "list" THEN Len(elem.items) ELSE Len(elem.content)

\* C29: for a fixed element kind the height of an element does not decrease
\* with its content length (characters, list items, code lines), and every
\* height lies in the band of minimum and maximum height: 35px to 250px
\* for _calculate_element_height; for _estimate_element_height, which
\* names a minimum of 0.4 inch for lists and text and no maximum, at least
\* 0.4 inch and at most the height of the slide.
C29_HeightMonotoneAndBanded ==
    \A by \in DOMAIN height_out :
        LET out == height_out[by]
        IN  /\ (/\ out[1].done /\ out[2].done
                /\ height_in[1].type = height_in[2].type
                /\ height_in[1].tag = height_in[2].tag
                /\ ContentLength(height_in[1]) <= ContentLength(height_in[2])) =>
                   out[1].val <= out[2].val
            /\ \A k \in 1..2 :
                   out[k].done =>
                       IF by = "_calculate_element_height"
                       THEN Px(35) <= out[k].val /\ out[k].val <= Px(250)
                       ELSE Tenths(4) <= out[k].val /\ out[k].val <= SLIDE_HEIGHT_INCHES

\* C30: every box a position calculator produces, in any layout kind and
\* for any number and mix of elements, has a strictly positive width and a
\* strictly positive height.
C30_BoxesHavePositiveSize ==
    /\ pc = "placed_html2pptx" =>
           \A k \in 1..Len(text_boxes) : text_boxes[k].width > 0 /\ text_boxes[k].height > 0
    /\ pc = "placed_layout_analyzer" =>
           \A k \in 1..Len(positions) : positions[k].width > 0 /\ positions[k].height > 0

====
